---- MODULE Spec2Model ----
(***************************************************************************)
(* Incremental call-graph maintenance engine of codex.graph: the change   *)
(* scheduler (scheduleFileAnalysis), the local update pipeline            *)
(* (performLocalUpdate) and the stores they share.                        *)
(*                                                                         *)
(* One JavaScript event loop runs everything.  Every action below is one  *)
(* macrotask: it starts at an event, a timer expiry or the resumption of  *)
(* an `await`, and runs the synchronous code up to the next `await` (or   *)
(* to the end of the callback).  An awaited call takes its effect on the  *)
(* store when it is called; the `await` itself is the point where other   *)
(* events and timers may run.                                             *)
(***************************************************************************)
EXTENDS Integers, Sequences, FiniteSets, TLC

(***************************************************************************)
(* Bounds of the model.                                                    *)
(***************************************************************************)
MaxEvents == 2

(***************************************************************************)
(* Strings the code takes apart are kept in parts: a path is the sequence *)
(* of its '/'-separated segments and a segment is the sequence of its     *)
(* '.'-separated parts, so "lib/b.py" is <<<<"lib">>, <<"b", "py">>>>,     *)
(* "." is <<"", "">> and ".." is <<"", "", "">>.                           *)
(***************************************************************************)
Dot == <<"", "">>

DotDot == <<"", "", "">>

FileA == <<(<<"a", "py">>)>>

FileB == <<(<<"b", "py">>)>>

FileOut == <<(<<"out">>), (<<"a", "js">>)>>

TrackedFiles == {FileA}

OutFiles == {FileOut}

Files == TrackedFiles \cup OutFiles

NoFile == <<>>

\* filePath.includes('/out/'): a directory segment "out" of the absolute path
IsCompiledOutput(filePath) ==
  \E i \in 1..(Len(filePath) - 1) : filePath[i] = <<"out">>

EventIds == 1..MaxEvents

Sources == {"create", "save"}

(***************************************************************************)
(* Source text, reduced to what the extractor sees: the declarations in   *)
(* file order, whether the text parses, and whether the text uses an LLM  *)
(* API (WorkflowDetector.detectWorkflow).                                  *)
(***************************************************************************)
\* a call expression: the dotted callee and the text from its '(' on
Call(n, a) == [name |-> n, args |-> a]

Decl(n, s, e, c) == [name |-> n, startLine |-> s, endLine |-> e, calls |-> c]

\* an import statement: the module source (a path) and the imported symbols
Import(src, syms) == [source |-> src, symbols |-> syms]

Text(i, d, p, l) == [imports |-> i, decls |-> d, parses |-> p, llm |-> l]

\* f calls g, g is not declared in the file
TextF == Text(<<>>, <<Decl("f", 1, 3, <<Call(<<"g">>, "()")>>)>>, TRUE, TRUE)

\* "import b"; f calls g, g is declared and calls b.summarize(x): one more
\* node and one more edge than TextF, and a call into b.py
TextFG ==
  Text(<<Import(<<(<<"b">>)>>, <<>>)>>,
       <<Decl("f", 1, 3, <<Call(<<"g">>, "()")>>),
         Decl("g", 5, 6, <<Call(<<"b", "summarize">>, "(x)")>>)>>, TRUE, TRUE)

\* TextF with a blank line inserted on top: only the line span of f moves
TextFShift == Text(<<>>, <<Decl("f", 2, 4, <<Call(<<"g">>, "()")>>)>>, TRUE, TRUE)

\* a file without functions and without LLM calls
TextEmpty == Text(<<>>, <<>>, TRUE, FALSE)

\* the library file of the workspace, which gets no change events
TextB == Text(<<>>, <<Decl("summarize", 1, 2, <<>>)>>, TRUE, TRUE)

Contents == {TextF, TextFG, TextFShift, TextEmpty}

(***************************************************************************)
(* JavaScript Map: a function whose DOMAIN is the set of keys present.     *)
(***************************************************************************)
EmptyMap == <<>>

MapHas(m, k) == k \in DOMAIN m

MapSet(m, k, v) == (k :> v) @@ m

MapDelete(m, k) == [x \in (DOMAIN m) \ {k} |-> m[x]]

(***************************************************************************)
(* Structural Extractor.  A later declaration with the same name          *)
(* overwrites the earlier one; a text that does not parse yields the       *)
(* empty call graph.                                                       *)
(***************************************************************************)
RECURSIVE JoinDots(_)
\* parts.join('.')
JoinDots(parts) ==
  IF parts = <<>> THEN ""
  ELSE IF Len(parts) = 1 THEN parts[1]
  ELSE parts[1] \o "." \o JoinDots(Tail(parts))

\* a call expression in the normalized [module.]function form
NormalizedCall(call) == JoinDots(call.name)

FunctionInfo(decl) ==
  [name |-> decl.name, startLine |-> decl.startLine, endLine |-> decl.endLine,
   calls |-> [i \in DOMAIN decl.calls |-> NormalizedCall(decl.calls[i])]]

extractCallGraph(content) ==
  IF ~content.parses THEN EmptyMap
  ELSE LET ds == content.decls
           names == {ds[i].name : i \in DOMAIN ds}
           last(n) == CHOOSE i \in DOMAIN ds :
                         /\ ds[i].name = n
                         /\ \A j \in DOMAIN ds : ds[j].name = n => j <= i
       IN [n \in names |-> FunctionInfo(ds[last(n)])]

\* the flattened (caller, callee) pairs of a call graph
CallEdges(cg) ==
  UNION {{<<n, cg[n].calls[i]>> : i \in DOMAIN cg[n].calls} : n \in DOMAIN cg}

(***************************************************************************)
(* Graph Differ.                                                           *)
(***************************************************************************)
\* diffCallGraphs with the function sets of old and new exchanged
diffCallGraphsSwapped(old, new) ==
  [addedFunctions    |-> (DOMAIN old) \ (DOMAIN new),
   removedFunctions  |-> (DOMAIN new) \ (DOMAIN old),
   modifiedFunctions |-> {n \in (DOMAIN old) \cap (DOMAIN new) :
                            \/ old[n].calls # new[n].calls
                            \/ old[n].startLine # new[n].startLine
                            \/ old[n].endLine # new[n].endLine},
   addedEdges        |-> CallEdges(new) \ CallEdges(old),
   removedEdges      |-> CallEdges(old) \ CallEdges(new)]

\* diffCallGraphs that compares the call lists as sets
diffCallGraphsUnordered(old, new) ==
  [addedFunctions    |-> (DOMAIN new) \ (DOMAIN old),
   removedFunctions  |-> (DOMAIN old) \ (DOMAIN new),
   modifiedFunctions |-> {n \in (DOMAIN old) \cap (DOMAIN new) :
                            \/ {old[n].calls[i] : i \in DOMAIN old[n].calls} #
                                 {new[n].calls[i] : i \in DOMAIN new[n].calls}
                            \/ old[n].startLine # new[n].startLine
                            \/ old[n].endLine # new[n].endLine},
   addedEdges        |-> CallEdges(new) \ CallEdges(old),
   removedEdges      |-> CallEdges(old) \ CallEdges(new)]

diffCallGraphs(old, new) ==
  [addedFunctions    |-> (DOMAIN new) \ (DOMAIN old),
   removedFunctions  |-> (DOMAIN old) \ (DOMAIN new),
   modifiedFunctions |-> {n \in (DOMAIN old) \cap (DOMAIN new) :
                            \/ old[n].calls # new[n].calls
                            \/ old[n].startLine # new[n].startLine
                            \/ old[n].endLine # new[n].endLine},
   addedEdges        |-> CallEdges(new) \ CallEdges(old),
   removedEdges      |-> CallEdges(old) \ CallEdges(new)]

\* hasChanges with >= 0 in place of > 0
hasChangesAtLeastZero(diff) ==
  \/ Cardinality(diff.addedFunctions) >= 0
  \/ Cardinality(diff.removedFunctions) >= 0
  \/ Cardinality(diff.modifiedFunctions) >= 0
  \/ Cardinality(diff.addedEdges) >= 0
  \/ Cardinality(diff.removedEdges) >= 0

\* hasChanges that looks at the added and removed functions only
hasChangesFunctionsOnly(diff) ==
  \/ diff.addedFunctions # {}
  \/ diff.removedFunctions # {}

hasChanges(diff) ==
  \/ diff.addedFunctions # {}
  \/ diff.removedFunctions # {}
  \/ diff.modifiedFunctions # {}
  \/ diff.addedEdges # {}
  \/ diff.removedEdges # {}

(***************************************************************************)
(* Visual graph of one file: nodes keyed by function name (the node id is *)
(* relativePath :: functionName), edges between node ids of the file.      *)
(***************************************************************************)
NodeId(relativePath, fn) == <<relativePath, fn>>

Node(relativePath, fn, p) == [id |-> NodeId(relativePath, fn), pending |-> p]

NodeIds(graph) == {n.id : n \in graph.nodes}

EmptyGraph == [nodes |-> {}, edges |-> {}]

EdgesTouching(edges, ids) == {e \in edges : e[1] \in ids \/ e[2] \in ids}

(***************************************************************************)
(* Local Graph Updater.                                                    *)
(***************************************************************************)
\* applyLocalUpdate that keeps the edges calling a removed function
applyLocalUpdateKeepsIncoming(fileGraph, diff, newCallGraph, relativePath) ==
  LET removedIds == {NodeId(relativePath, f) : f \in diff.removedFunctions}
      keptNodes  == {n \in fileGraph.nodes : n.id \notin removedIds}
      addedNodes == {Node(relativePath, f, TRUE) : f \in diff.addedFunctions}
      nodes      == keptNodes \cup addedNodes
      ids        == {n.id : n \in nodes}
      staleEdges == {<<NodeId(relativePath, e[1]), NodeId(relativePath, e[2])>> :
                       e \in diff.removedEdges}
      goneEdges  == {e \in fileGraph.edges : e[1] \in removedIds} \cup
                    (fileGraph.edges \cap staleEdges)
      keptEdges  == fileGraph.edges \ goneEdges
      newEdges   == {e \in {<<NodeId(relativePath, d[1]), NodeId(relativePath, d[2])>> :
                              d \in diff.addedEdges} :
                       e[1] \in ids /\ e[2] \in ids} \ keptEdges
  IN [graph            |-> [nodes |-> nodes, edges |-> keptEdges \cup newEdges],
      nodesAdded       |-> {n.id : n \in addedNodes},
      nodesRemoved     |-> removedIds,
      nodesUpdated     |-> {NodeId(relativePath, f) : f \in diff.modifiedFunctions} \cap ids,
      edgesAdded       |-> Cardinality(newEdges),
      edgesRemoved     |-> Cardinality(goneEdges),
      needsMetadata    |-> {n.id : n \in {m \in nodes : m.pending}},
      changedFunctions |-> {}]

\* applyLocalUpdate that adds every added edge whose caller is a node
applyLocalUpdateAllEdges(fileGraph, diff, newCallGraph, relativePath) ==
  LET removedIds == {NodeId(relativePath, f) : f \in diff.removedFunctions}
      keptNodes  == {n \in fileGraph.nodes : n.id \notin removedIds}
      addedNodes == {Node(relativePath, f, TRUE) : f \in diff.addedFunctions}
      nodes      == keptNodes \cup addedNodes
      ids        == {n.id : n \in nodes}
      staleEdges == {<<NodeId(relativePath, e[1]), NodeId(relativePath, e[2])>> :
                       e \in diff.removedEdges}
      goneEdges  == EdgesTouching(fileGraph.edges, removedIds) \cup
                    (fileGraph.edges \cap staleEdges)
      keptEdges  == fileGraph.edges \ goneEdges
      newEdges   == {e \in {<<NodeId(relativePath, d[1]), NodeId(relativePath, d[2])>> :
                              d \in diff.addedEdges} :
                       e[1] \in ids} \ keptEdges
  IN [graph            |-> [nodes |-> nodes, edges |-> keptEdges \cup newEdges],
      nodesAdded       |-> {n.id : n \in addedNodes},
      nodesRemoved     |-> removedIds,
      nodesUpdated     |-> {NodeId(relativePath, f) : f \in diff.modifiedFunctions} \cap ids,
      edgesAdded       |-> Cardinality(newEdges),
      edgesRemoved     |-> Cardinality(goneEdges),
      needsMetadata    |-> {n.id : n \in {m \in nodes : m.pending}},
      changedFunctions |-> {}]

applyLocalUpdate(fileGraph, diff, newCallGraph, relativePath) ==
  LET removedIds == {NodeId(relativePath, f) : f \in diff.removedFunctions}
      keptNodes  == {n \in fileGraph.nodes : n.id \notin removedIds}
      addedNodes == {Node(relativePath, f, TRUE) : f \in diff.addedFunctions}
      nodes      == keptNodes \cup addedNodes
      ids        == {n.id : n \in nodes}
      staleEdges == {<<NodeId(relativePath, e[1]), NodeId(relativePath, e[2])>> :
                       e \in diff.removedEdges}
      goneEdges  == EdgesTouching(fileGraph.edges, removedIds) \cup
                    (fileGraph.edges \cap staleEdges)
      keptEdges  == fileGraph.edges \ goneEdges
      newEdges   == {e \in {<<NodeId(relativePath, d[1]), NodeId(relativePath, d[2])>> :
                              d \in diff.addedEdges} :
                       e[1] \in ids /\ e[2] \in ids} \ keptEdges
  IN [graph            |-> [nodes |-> nodes, edges |-> keptEdges \cup newEdges],
      nodesAdded       |-> {n.id : n \in addedNodes},
      nodesRemoved     |-> removedIds,
      nodesUpdated     |-> {NodeId(relativePath, f) : f \in diff.modifiedFunctions} \cap ids,
      edgesAdded       |-> Cardinality(newEdges),
      edgesRemoved     |-> Cardinality(goneEdges),
      needsMetadata    |-> {n.id : n \in {m \in nodes : m.pending}},
      changedFunctions |-> {}]

createGraphFromCallGraph(callGraph, relativePath) ==
  [nodes |-> {Node(relativePath, f, TRUE) : f \in DOMAIN callGraph},
   edges |-> {<<NodeId(relativePath, e[1]), NodeId(relativePath, e[2])>> :
                e \in {c \in CallEdges(callGraph) : c[2] \in DOMAIN callGraph}}]

\* the explicit zero-change PatchResult
ZeroChangeResult ==
  [graph |-> EmptyGraph, nodesAdded |-> {}, nodesRemoved |-> {}, nodesUpdated |-> {},
   edgesAdded |-> 0, edgesRemoved |-> 0, needsMetadata |-> {}, changedFunctions |-> {}]

\* the graph a full external analysis stores for a file: every node classified
analysedGraph(callGraph, relativePath) ==
  [nodes |-> {Node(relativePath, f, FALSE) : f \in DOMAIN callGraph},
   edges |-> createGraphFromCallGraph(callGraph, relativePath).edges]

(***************************************************************************)
(* Timing configuration.                                                   *)
(***************************************************************************)
CreateDebounceMs == 100

DebounceMs == 2000

\* the FileWatchingConfig the extension passes when nothing is configured
DefaultConfig == [debounceMs |-> DebounceMs]

\* values of config.debounceMs a caller may pass
DebounceSettings == {50, 100, 2000}

FileWatchingConfigs == {[debounceMs |-> ms] : ms \in DebounceSettings}

\* debounceMsFor that gives every event the configured delay
debounceMsForConfigured(source, config) == config.debounceMs

\* the delay of the debounce timer
debounceMsFor(source, config) ==
  IF source = "create" THEN CreateDebounceMs ELSE config.debounceMs

(***************************************************************************)
(* State.                                                                  *)
(*   disk              file contents, as fs.readFileSync sees them         *)
(*   nextId            next handle setTimeout returns for a debounce timer *)
(*   debounceTimers    armed, unfired debounce timers of the event loop    *)
(*   pendingChanges    analysis/state: Map filePath -> debounce handle     *)
(*   transitionTimers  armed, unfired active -> changed timers             *)
(*   activelyEditing   analysis/state: Map filePath -> {timer, functions}  *)
(*   changedFunctions  analysis/state: Map filePath -> functions           *)
(*   cachedCallGraphs  analysis/state: Map filePath -> CallGraph           *)
(*   fileGraphs        CacheManager: Map filePath -> persisted graph       *)
(*   repoFiles         analysis/state: RepoFileIndex, a list of files      *)
(*   crossFileCalls    analysis/state: list of CrossFileCall               *)
(*   runs              timer callbacks suspended at an await               *)
(*   out               calls made to the collaborators by the last step    *)
(*   hist, lastEvent, cgWriter   history of each event, for the properties *)
(***************************************************************************)
VARIABLES disk, nextId, debounceTimers, pendingChanges, transitionTimers,
          activelyEditing, changedFunctions, cachedCallGraphs, fileGraphs,
          repoFiles, crossFileCalls, runs, out, hist, lastEvent, cgWriter,
          globalState, panel, filePickerResolver, promises

vars == <<disk, nextId, debounceTimers, pendingChanges, transitionTimers,
          activelyEditing, changedFunctions, cachedCallGraphs, fileGraphs,
          repoFiles, crossFileCalls, runs, out, hist, lastEvent, cgWriter,
          globalState, panel, filePickerResolver, promises>>

\* the fields of the WebviewManager and the promises showFilePicker returned
webviewVars == <<panel, filePickerResolver, promises>>

\* `private panel: vscode.WebviewPanel | undefined`, before any panel is created
\* filePickerResolver is the index in promises of the promise whose resolve
\* the field holds, 0 for `null`
NoPanel == [createdBy |-> "none", html |-> "", picker |-> FALSE, loading |-> FALSE]


NoHist ==
  [file |-> NoFile, started |-> 0, cancelled |-> FALSE, outcome |-> "none",
   zeroPatch |-> FALSE, cached |-> FALSE, fallback |-> FALSE, calls |-> {},
   changedN |-> 0, patchEv |-> 0]

Out(c, r, st, fns, pend) ==
  [call |-> c, file |-> r.file, run |-> r.id, state |-> st, functions |-> fns,
   pending |-> pend]

(***************************************************************************)
(* analysis/state helpers.                                                 *)
(***************************************************************************)
\* clearTimeout of the file's debounce handle, then delete the entry
clearPendingChange(filePath) ==
  IF MapHas(pendingChanges, filePath)
  THEN [map    |-> MapDelete(pendingChanges, filePath),
        timers |-> {t \in debounceTimers : t.id # pendingChanges[filePath]}]
  ELSE [map |-> pendingChanges, timers |-> debounceTimers]

deletePendingChange(filePath) == MapDelete(pendingChanges, filePath)

\* clearTimeout of the file's transition timer, then delete the entry
clearActivelyEditing(filePath) ==
  IF MapHas(activelyEditing, filePath)
  THEN [map    |-> MapDelete(activelyEditing, filePath),
        timers |-> {t \in transitionTimers : t.id # activelyEditing[filePath].timer}]
  ELSE [map |-> activelyEditing, timers |-> transitionTimers]

clearChangedFunctions(filePath) == MapDelete(changedFunctions, filePath)

getCachedCallGraph(filePath) ==
  IF MapHas(cachedCallGraphs, filePath) THEN {cachedCallGraphs[filePath]} ELSE {}

(***************************************************************************)
(* CacheManager, a get/set store keyed by file.                            *)
(***************************************************************************)
\* cache.getMergedGraph([filePath]): the file's graph, or null ({})
getFileGraph(store, filePath) ==
  IF MapHas(store, filePath) THEN {store[filePath]} ELSE {}

\* cache.getMergedGraph(): the graphs of all files merged
getMergedGraph(store) ==
  [nodes |-> UNION {store[f].nodes : f \in DOMAIN store},
   edges |-> UNION {store[f].edges : f \in DOMAIN store}]

isFileCached(store, filePath) == MapHas(store, filePath)

setAnalysisResult(store, filePath, graph) == MapSet(store, filePath, graph)

(***************************************************************************)
(* Cross-File Resolver.                                                    *)
(***************************************************************************)
Range(seq) == {seq[i] : i \in DOMAIN seq}

RECURSIVE Flatten(_)
Flatten(seqs) == IF seqs = <<>> THEN <<>> ELSE Head(seqs) \o Flatten(Tail(seqs))

\* segments.join('/'): the empty list joins to the empty string
JoinPath(segments) == IF segments = <<>> THEN <<(<<"">>)>> ELSE segments

RECURSIVE JoinSlash(_)
\* the path as one string
JoinSlash(path) ==
  IF Len(path) = 1 THEN JoinDots(path[1])
  ELSE JoinDots(path[1]) \o "/" \o JoinSlash(Tail(path))

\* basePath + ext, ext being "" or "." followed by the given extension
AddExt(path, ext) ==
  IF ext = "" THEN path ELSE [path EXCEPT ![Len(path)] = Append(@, ext)]

RelativeExts == <<"ts", "tsx", "js", "jsx", "py", "">>

ModuleExts == <<"py", "ts", "js", "">>

\* names that start with '@'
ScopedNames == {"@scope"}

RECURSIVE ResolveSegments(_, _)
\* the loop over parts: '.' and '' are skipped, '..' pops, anything else is pushed
ResolveSegments(parts, resolved) ==
  IF parts = <<>> THEN resolved
  ELSE LET part == Head(parts)
       IN IF part = Dot \/ part = <<"">>
          THEN ResolveSegments(Tail(parts), resolved)
          ELSE IF part = DotDot
          THEN ResolveSegments(Tail(parts),
                               IF resolved = <<>> THEN <<>>
                               ELSE SubSeq(resolved, 1, Len(resolved) - 1))
          ELSE ResolveSegments(Tail(parts), Append(resolved, part))

\* f.endsWith('/' + fullPath)
EndsWithPath(f, fullPath) ==
  /\ Len(f) > Len(fullPath)
  /\ SubSeq(f, Len(f) - Len(fullPath) + 1, Len(f)) = fullPath

RECURSIVE DotsToSlashes(_)
\* importSource.replace(/\./g, '/'): every dot-separated part becomes a segment
DotsToSlashes(parts) ==
  IF parts = <<>> THEN <<>> ELSE <<(<<Head(parts)>>)>> \o DotsToSlashes(Tail(parts))

\* resolveImportToRepoFile returning the last candidate that exists, not the first
resolveImportToRepoFileLastCandidate(importSource, currentFile, allPaths) ==
  LET currentDir == JoinPath(SubSeq(currentFile, 1, Len(currentFile) - 1))
      isRelative == Len(importSource) >= 2 /\ importSource[1] \in {Dot, DotDot}
      basePath   == JoinPath(ResolveSegments(currentDir \o importSource, <<>>))
      relHits    == {i \in DOMAIN RelativeExts :
                       AddExt(basePath, RelativeExts[i]) \in Range(allPaths)}
      isBare     == Len(importSource) = 1 /\ importSource[1][1] \notin ScopedNames
      modulePath == DotsToSlashes(importSource[1])
      matches(e) == {k \in DOMAIN allPaths :
                       \/ allPaths[k] = AddExt(modulePath, ModuleExts[e])
                       \/ EndsWithPath(allPaths[k], AddExt(modulePath, ModuleExts[e]))}
      modHits    == {e \in DOMAIN ModuleExts : matches(e) # {}}
      lastRel    == CHOOSE i \in relHits : \A j \in relHits : i >= j
      lastMod    == CHOOSE e \in modHits : \A j \in modHits : e >= j
      firstMatch == CHOOSE k \in matches(lastMod) : \A j \in matches(lastMod) : k <= j
  IN IF isRelative /\ relHits # {}
     THEN {AddExt(basePath, RelativeExts[lastRel])}
     ELSE IF isBare /\ modHits # {}
     THEN {allPaths[firstMatch]}
     ELSE {}

\* the resolved path as a set: empty for null
resolveImportToRepoFile(importSource, currentFile, allPaths) ==
  LET currentDir == JoinPath(SubSeq(currentFile, 1, Len(currentFile) - 1))
      isRelative == Len(importSource) >= 2 /\ importSource[1] \in {Dot, DotDot}
      basePath   == JoinPath(ResolveSegments(currentDir \o importSource, <<>>))
      relHits    == {i \in DOMAIN RelativeExts :
                       AddExt(basePath, RelativeExts[i]) \in Range(allPaths)}
      isBare     == Len(importSource) = 1 /\ importSource[1][1] \notin ScopedNames
      modulePath == DotsToSlashes(importSource[1])
      matches(e) == {k \in DOMAIN allPaths :
                       \/ allPaths[k] = AddExt(modulePath, ModuleExts[e])
                       \/ EndsWithPath(allPaths[k], AddExt(modulePath, ModuleExts[e]))}
      modHits    == {e \in DOMAIN ModuleExts : matches(e) # {}}
      firstRel   == CHOOSE i \in relHits : \A j \in relHits : i <= j
      firstMod   == CHOOSE e \in modHits : \A j \in modHits : e <= j
      firstMatch == CHOOSE k \in matches(firstMod) : \A j \in matches(firstMod) : k <= j
  IN IF isRelative /\ relHits # {}
     THEN {AddExt(basePath, RelativeExts[firstRel])}
     ELSE IF isBare /\ modHits # {}
     THEN {allPaths[firstMatch]}
     ELSE {}

\* repo-structure: the file's imports and its functions with their raw calls
extractFileStructure(content, relativePath) ==
  [imports   |-> content.imports,
   functions |-> [i \in DOMAIN content.decls |->
                    [name  |-> content.decls[i].name,
                     calls |-> content.decls[i].calls,
                     line  |-> content.decls[i].startLine]]]

\* imp.source.split('/').pop()?.replace(/\.[^.]+$/, '') || imp.source
ImportModuleName(source) ==
  LET lastSeg  == source[Len(source)]
      stripped == IF Len(lastSeg) >= 2 /\ lastSeg[Len(lastSeg)] # ""
                  THEN SubSeq(lastSeg, 1, Len(lastSeg) - 1) ELSE lastSeg
  IN IF JoinDots(stripped) = "" THEN JoinSlash(source) ELSE JoinDots(stripped)

\* `const name = value`: the value is computed once and then used by name
With(value, Body(_)) == CHOOSE result \in {Body(v) : v \in {value}} : TRUE

RECURSIVE SetSymbols(_, _, _)
\* for (const symbol of imp.symbols) importMap.set(symbol, resolvedPath)
SetSymbols(importMap, symbols, resolvedPath) ==
  IF symbols = <<>> THEN importMap
  ELSE SetSymbols(MapSet(importMap, Head(symbols), resolvedPath), Tail(symbols),
                  resolvedPath)

RECURSIVE BuildImportMap(_, _, _, _)
\* the loop over fileStructure.imports, later entries overwriting earlier ones
BuildImportMap(imports, relativePath, allFilePaths, importMap) ==
  IF imports = <<>> THEN importMap
  ELSE
  With(Head(imports), LAMBDA imp :
  With(resolveImportToRepoFile(imp.source, relativePath, allFilePaths),
       LAMBDA resolvedPath :
  With(IF resolvedPath = {} THEN importMap
       ELSE MapSet(SetSymbols(importMap, imp.symbols, CHOOSE q \in resolvedPath : TRUE),
                   ImportModuleName(imp.source),
                   CHOOSE q \in resolvedPath : TRUE),
       LAMBDA nextMap :
  BuildImportMap(Tail(imports), relativePath, allFilePaths, nextMap))))

(***************************************************************************)
(* updateCrossFileState: replace the file's entry of the repo index and    *)
(* its outgoing cross-file calls.                                          *)
(***************************************************************************)
RepoFile(path, functions) == [path |-> path, functions |-> functions]

CrossFileCall(file, fn, targetFile, funcName, moduleName) ==
  [caller |-> [file |-> file, function |-> fn.name, line |-> fn.line],
   callee |-> [file |-> targetFile, function |-> funcName, module |-> moduleName]]

\* updateCrossFileState that keeps the old calls of the file
updateCrossFileStateAppends(content, relativePath) ==
  IF repoFiles = <<>>
  THEN [repoFiles |-> repoFiles, crossFileCalls |-> crossFileCalls]
  ELSE
  With(extractFileStructure(content, relativePath), LAMBDA fileStructure :
  With(Append(SelectSeq(repoFiles, LAMBDA f : f.path # relativePath),
              RepoFile(relativePath, fileStructure.functions)),
       LAMBDA updatedRepoFiles :
  With([i \in DOMAIN updatedRepoFiles |-> updatedRepoFiles[i].path],
       LAMBDA allFilePaths :
  With(BuildImportMap(fileStructure.imports, relativePath, allFilePaths, EmptyMap),
       LAMBDA importMap :
  LET otherCalls       ==
        crossFileCalls
      lastOf(q)        == CHOOSE i \in DOMAIN updatedRepoFiles :
                            /\ updatedRepoFiles[i].path = q
                            /\ \A j \in DOMAIN updatedRepoFiles :
                                 updatedRepoFiles[j].path = q => j <= i
      exportedFunctions(q) ==
        {fn.name : fn \in Range(updatedRepoFiles[lastOf(q)].functions)}
      resolve(fn, call) ==
        IF Len(call.name) < 2 THEN <<>>
        ELSE LET moduleName == call.name[1]
                 funcName   == JoinDots(Tail(call.name))
             IN IF MapHas(importMap, moduleName) /\ importMap[moduleName] # relativePath
                THEN LET targetFile  == importMap[moduleName]
                         targetFuncs == exportedFunctions(targetFile)
                     IN IF funcName \in targetFuncs \/ targetFuncs = {}
                        THEN <<CrossFileCall(relativePath, fn, targetFile, funcName,
                                             moduleName)>>
                        ELSE <<>>
                ELSE <<>>
      callsOf(fn)      == Flatten([j \in DOMAIN fn.calls |-> resolve(fn, fn.calls[j])])
      newCalls         ==
        Flatten([i \in DOMAIN fileStructure.functions |->
                   callsOf(fileStructure.functions[i])])
  IN [repoFiles |-> updatedRepoFiles, crossFileCalls |-> otherCalls \o newCalls]))))

\* updateCrossFileState that accepts a call only if the target lists the function
updateCrossFileStateStrict(content, relativePath) ==
  IF repoFiles = <<>>
  THEN [repoFiles |-> repoFiles, crossFileCalls |-> crossFileCalls]
  ELSE
  With(extractFileStructure(content, relativePath), LAMBDA fileStructure :
  With(Append(SelectSeq(repoFiles, LAMBDA f : f.path # relativePath),
              RepoFile(relativePath, fileStructure.functions)),
       LAMBDA updatedRepoFiles :
  With([i \in DOMAIN updatedRepoFiles |-> updatedRepoFiles[i].path],
       LAMBDA allFilePaths :
  With(BuildImportMap(fileStructure.imports, relativePath, allFilePaths, EmptyMap),
       LAMBDA importMap :
  LET otherCalls       ==
        SelectSeq(crossFileCalls, LAMBDA c : c.caller.file # relativePath)
      lastOf(q)        == CHOOSE i \in DOMAIN updatedRepoFiles :
                            /\ updatedRepoFiles[i].path = q
                            /\ \A j \in DOMAIN updatedRepoFiles :
                                 updatedRepoFiles[j].path = q => j <= i
      exportedFunctions(q) ==
        {fn.name : fn \in Range(updatedRepoFiles[lastOf(q)].functions)}
      resolve(fn, call) ==
        IF Len(call.name) < 2 THEN <<>>
        ELSE LET moduleName == call.name[1]
                 funcName   == JoinDots(Tail(call.name))
             IN IF MapHas(importMap, moduleName) /\ importMap[moduleName] # relativePath
                THEN LET targetFile  == importMap[moduleName]
                         targetFuncs == exportedFunctions(targetFile)
                     IN IF funcName \in targetFuncs
                        THEN <<CrossFileCall(relativePath, fn, targetFile, funcName,
                                             moduleName)>>
                        ELSE <<>>
                ELSE <<>>
      callsOf(fn)      == Flatten([j \in DOMAIN fn.calls |-> resolve(fn, fn.calls[j])])
      newCalls         ==
        Flatten([i \in DOMAIN fileStructure.functions |->
                   callsOf(fileStructure.functions[i])])
  IN [repoFiles |-> updatedRepoFiles, crossFileCalls |-> otherCalls \o newCalls]))))

\* updateCrossFileState that drops the old calls into the file, not out of it
updateCrossFileStateFiltersCallee(content, relativePath) ==
  IF repoFiles = <<>>
  THEN [repoFiles |-> repoFiles, crossFileCalls |-> crossFileCalls]
  ELSE
  With(extractFileStructure(content, relativePath), LAMBDA fileStructure :
  With(Append(SelectSeq(repoFiles, LAMBDA f : f.path # relativePath),
              RepoFile(relativePath, fileStructure.functions)),
       LAMBDA updatedRepoFiles :
  With([i \in DOMAIN updatedRepoFiles |-> updatedRepoFiles[i].path],
       LAMBDA allFilePaths :
  With(BuildImportMap(fileStructure.imports, relativePath, allFilePaths, EmptyMap),
       LAMBDA importMap :
  LET otherCalls       ==
        SelectSeq(crossFileCalls, LAMBDA c : c.callee.file # relativePath)
      lastOf(q)        == CHOOSE i \in DOMAIN updatedRepoFiles :
                            /\ updatedRepoFiles[i].path = q
                            /\ \A j \in DOMAIN updatedRepoFiles :
                                 updatedRepoFiles[j].path = q => j <= i
      exportedFunctions(q) ==
        {fn.name : fn \in Range(updatedRepoFiles[lastOf(q)].functions)}
      resolve(fn, call) ==
        IF Len(call.name) < 2 THEN <<>>
        ELSE LET moduleName == call.name[1]
                 funcName   == JoinDots(Tail(call.name))
             IN IF MapHas(importMap, moduleName) /\ importMap[moduleName] # relativePath
                THEN LET targetFile  == importMap[moduleName]
                         targetFuncs == exportedFunctions(targetFile)
                     IN IF funcName \in targetFuncs \/ targetFuncs = {}
                        THEN <<CrossFileCall(relativePath, fn, targetFile, funcName,
                                             moduleName)>>
                        ELSE <<>>
                ELSE <<>>
      callsOf(fn)      == Flatten([j \in DOMAIN fn.calls |-> resolve(fn, fn.calls[j])])
      newCalls         ==
        Flatten([i \in DOMAIN fileStructure.functions |->
                   callsOf(fileStructure.functions[i])])
  IN [repoFiles |-> updatedRepoFiles, crossFileCalls |-> otherCalls \o newCalls]))))

\* updateCrossFileState that pushes the entry without filtering the old one out
updateCrossFileStatePushes(content, relativePath) ==
  IF repoFiles = <<>>
  THEN [repoFiles |-> repoFiles, crossFileCalls |-> crossFileCalls]
  ELSE
  With(extractFileStructure(content, relativePath), LAMBDA fileStructure :
  With(Append(repoFiles, RepoFile(relativePath, fileStructure.functions)),
       LAMBDA updatedRepoFiles :
  With([i \in DOMAIN updatedRepoFiles |-> updatedRepoFiles[i].path],
       LAMBDA allFilePaths :
  With(BuildImportMap(fileStructure.imports, relativePath, allFilePaths, EmptyMap),
       LAMBDA importMap :
  LET otherCalls       ==
        SelectSeq(crossFileCalls, LAMBDA c : c.caller.file # relativePath)
      lastOf(q)        == CHOOSE i \in DOMAIN updatedRepoFiles :
                            /\ updatedRepoFiles[i].path = q
                            /\ \A j \in DOMAIN updatedRepoFiles :
                                 updatedRepoFiles[j].path = q => j <= i
      exportedFunctions(q) ==
        {fn.name : fn \in Range(updatedRepoFiles[lastOf(q)].functions)}
      resolve(fn, call) ==
        IF Len(call.name) < 2 THEN <<>>
        ELSE LET moduleName == call.name[1]
                 funcName   == JoinDots(Tail(call.name))
             IN IF MapHas(importMap, moduleName) /\ importMap[moduleName] # relativePath
                THEN LET targetFile  == importMap[moduleName]
                         targetFuncs == exportedFunctions(targetFile)
                     IN IF funcName \in targetFuncs \/ targetFuncs = {}
                        THEN <<CrossFileCall(relativePath, fn, targetFile, funcName,
                                             moduleName)>>
                        ELSE <<>>
                ELSE <<>>
      callsOf(fn)      == Flatten([j \in DOMAIN fn.calls |-> resolve(fn, fn.calls[j])])
      newCalls         ==
        Flatten([i \in DOMAIN fileStructure.functions |->
                   callsOf(fileStructure.functions[i])])
  IN [repoFiles |-> updatedRepoFiles, crossFileCalls |-> otherCalls \o newCalls]))))

updateCrossFileState(content, relativePath) ==
  IF repoFiles = <<>>
  THEN [repoFiles |-> repoFiles, crossFileCalls |-> crossFileCalls]
  ELSE
  With(extractFileStructure(content, relativePath), LAMBDA fileStructure :
  With(Append(SelectSeq(repoFiles, LAMBDA f : f.path # relativePath),
              RepoFile(relativePath, fileStructure.functions)),
       LAMBDA updatedRepoFiles :
  With([i \in DOMAIN updatedRepoFiles |-> updatedRepoFiles[i].path],
       LAMBDA allFilePaths :
  With(BuildImportMap(fileStructure.imports, relativePath, allFilePaths, EmptyMap),
       LAMBDA importMap :
  LET otherCalls       ==
        SelectSeq(crossFileCalls, LAMBDA c : c.caller.file # relativePath)
      lastOf(q)        == CHOOSE i \in DOMAIN updatedRepoFiles :
                            /\ updatedRepoFiles[i].path = q
                            /\ \A j \in DOMAIN updatedRepoFiles :
                                 updatedRepoFiles[j].path = q => j <= i
      exportedFunctions(q) ==
        {fn.name : fn \in Range(updatedRepoFiles[lastOf(q)].functions)}
      resolve(fn, call) ==
        IF Len(call.name) < 2 THEN <<>>
        ELSE LET moduleName == call.name[1]
                 funcName   == JoinDots(Tail(call.name))
             IN IF MapHas(importMap, moduleName) /\ importMap[moduleName] # relativePath
                THEN LET targetFile  == importMap[moduleName]
                         targetFuncs == exportedFunctions(targetFile)
                     IN IF funcName \in targetFuncs \/ targetFuncs = {}
                        THEN <<CrossFileCall(relativePath, fn, targetFile, funcName,
                                             moduleName)>>
                        ELSE <<>>
                ELSE <<>>
      callsOf(fn)      == Flatten([j \in DOMAIN fn.calls |-> resolve(fn, fn.calls[j])])
      newCalls         ==
        Flatten([i \in DOMAIN fileStructure.functions |->
                   callsOf(fileStructure.functions[i])])
  IN [repoFiles |-> updatedRepoFiles, crossFileCalls |-> otherCalls \o newCalls]))))

(***************************************************************************)
(* Initial state: each tracked file is new, or was analysed (persisted    *)
(* graph and cached call graph), or was analysed in an earlier session    *)
(* whose call graphs are gone.  The repo index is empty when nothing was  *)
(* analysed yet; otherwise it lists the library file and the analysed     *)
(* files.                                                                  *)
(***************************************************************************)
FileStatus == {"new", "analysed", "analysedNoCallGraph"}

Init ==
  /\ disk = [f \in TrackedFiles |-> TextF]
  /\ nextId = 1
  /\ debounceTimers = {}
  /\ pendingChanges = EmptyMap
  /\ transitionTimers = {}
  /\ activelyEditing = EmptyMap
  /\ changedFunctions = EmptyMap
  /\ \E status \in [TrackedFiles -> FileStatus], indexed \in BOOLEAN :
       /\ indexed \/ \A f \in TrackedFiles : status[f] = "new"
       /\ repoFiles =
            IF indexed
            THEN <<RepoFile(FileB, extractFileStructure(TextB, FileB).functions)>> \o
                 (IF status[FileA] # "new"
                  THEN <<RepoFile(FileA, extractFileStructure(disk[FileA], FileA).functions)>>
                  ELSE <<>>)
            ELSE <<>>
       /\ crossFileCalls = <<>>
       /\ globalState = EmptyMap
       /\ panel = NoPanel
       /\ filePickerResolver = 0
       /\ promises = <<>>
       /\ cachedCallGraphs =
            [f \in {g \in TrackedFiles : status[g] = "analysed"} |->
               extractCallGraph(disk[f])]
       /\ fileGraphs =
            [f \in {g \in TrackedFiles : status[g] # "new"} |->
               analysedGraph(extractCallGraph(disk[f]), f)]
  /\ runs = {}
  /\ out = <<>>
  /\ hist = [id \in EventIds |-> NoHist]
  /\ lastEvent = [f \in Files |-> 0]
  /\ cgWriter = [f \in TrackedFiles |-> [last |-> 0, max |-> 0]]

(***************************************************************************)
(* scheduleFileAnalysis: the synchronous part, up to setPendingChange.     *)
(***************************************************************************)
\* scheduleFileAnalysis without clearPendingChange: the earlier timer stays armed
scheduleFileAnalysisNoClear(filePath, source, config) ==
  IF IsCompiledOutput(filePath)
  THEN /\ nextId' = nextId + 1
       /\ out' = <<>>
       /\ UNCHANGED <<webviewVars, globalState, debounceTimers, pendingChanges, transitionTimers,
                      activelyEditing,
                      changedFunctions, cachedCallGraphs, fileGraphs, runs, hist, cgWriter,
                 repoFiles, crossFileCalls>>
  ELSE LET debounceMs == debounceMsFor(source, config)
           timeout    == [id |-> nextId, file |-> filePath, source |-> source,
                          delay |-> debounceMs, config |-> config]
       IN /\ debounceTimers' = debounceTimers \cup {timeout}
          /\ pendingChanges' = MapSet(pendingChanges, filePath, timeout.id)
          /\ nextId' = nextId + 1
          /\ hist' = [hist EXCEPT ![nextId].file = filePath]
          /\ out' = <<[call |-> "setTimeout", file |-> filePath, run |-> nextId,
                       state |-> "", functions |-> {}, pending |-> {},
                       timer |-> timeout, cleared |-> {}]>>
          /\ UNCHANGED <<webviewVars, globalState,
                         transitionTimers, activelyEditing, changedFunctions,
                         cachedCallGraphs, fileGraphs, runs, cgWriter,
                 repoFiles, crossFileCalls>>

scheduleFileAnalysis(filePath, source, config) ==
  IF IsCompiledOutput(filePath)
  THEN /\ nextId' = nextId + 1
       /\ out' = <<>>
       /\ UNCHANGED <<webviewVars, globalState, debounceTimers, pendingChanges, transitionTimers,
                      activelyEditing,
                      changedFunctions, cachedCallGraphs, fileGraphs, runs, hist, cgWriter,
                 repoFiles, crossFileCalls>>
  ELSE LET cleared    == clearPendingChange(filePath)
           debounceMs == debounceMsFor(source, config)
           timeout    == [id |-> nextId, file |-> filePath, source |-> source,
                          delay |-> debounceMs, config |-> config]
           superseded == {t.id : t \in debounceTimers \ cleared.timers}
       IN /\ debounceTimers' = cleared.timers \cup {timeout}
          /\ pendingChanges' = MapSet(cleared.map, filePath, timeout.id)
          /\ nextId' = nextId + 1
          /\ hist' = [id \in EventIds |->
                        IF id \in superseded THEN [hist[id] EXCEPT !.cancelled = TRUE]
                        ELSE IF id = nextId THEN [hist[id] EXCEPT !.file = filePath]
                        ELSE hist[id]]
          /\ out' = <<[call |-> "setTimeout", file |-> filePath, run |-> nextId,
                       state |-> "", functions |-> {}, pending |-> {},
                       timer |-> timeout,
                       cleared |-> debounceTimers \ cleared.timers]>>
          /\ UNCHANGED <<webviewVars, globalState,
                         transitionTimers, activelyEditing, changedFunctions,
                         cachedCallGraphs, fileGraphs, runs, cgWriter,
                 repoFiles, crossFileCalls>>

\* the editor reports a change of a file: its new content is on disk
ConfiguredChangeEvent(filePath, source, content, config) ==
  /\ nextId <= MaxEvents
  /\ disk' = IF filePath \in TrackedFiles THEN [disk EXCEPT ![filePath] = content] ELSE disk
  /\ lastEvent' = [lastEvent EXCEPT ![filePath] = nextId]
  /\ scheduleFileAnalysis(filePath, source, config)

ChangeEvent(filePath, source, content) ==
  ConfiguredChangeEvent(filePath, source, content, DefaultConfig)

(***************************************************************************)
(* A suspended timer callback.  pc names the line of the await it waits   *)
(* at; optional values are sets with at most one element.                  *)
(***************************************************************************)
Run(id, file, pc, content, newCallGraph, oldCallGraph, fileGraph, result, cached) ==
  [id |-> id, file |-> file, pc |-> pc, content |-> content,
   newCallGraph |-> newCallGraph, oldCallGraph |-> oldCallGraph,
   fileGraph |-> fileGraph, result |-> result, isCached |-> cached]

Suspend(r, next) == runs' = (runs \ {r}) \cup {next}

WriteCallGraph(r, callGraph) ==
  /\ cachedCallGraphs' = MapSet(cachedCallGraphs, r.file, callGraph)
  /\ cgWriter' = [cgWriter EXCEPT ![r.file] =
                    [last |-> r.id, max |-> IF r.id > @.max THEN r.id ELSE @.max]]

(***************************************************************************)
(* The debounce timer fires: the callback runs from deletePendingChange   *)
(* into performLocalUpdate, up to its first await.  readFileSync may       *)
(* throw (the file is gone), which performLocalUpdate turns into null.     *)
(***************************************************************************)
\* DebounceFire of a repeating timer (setInterval): the timer stays armed
DebounceFireRepeating(t) ==
  /\ t \in debounceTimers
  /\ hist[t.id].started < 2
  /\ UNCHANGED <<webviewVars, globalState, debounceTimers, pendingChanges>>
  /\ LET content      == disk[t.file]
         newCallGraph == extractCallGraph(content)
     IN /\ runs' = runs \cup
             {Run(t.id, t.file, "L389", {content}, newCallGraph,
                  getCachedCallGraph(t.file), getFileGraph(fileGraphs, t.file),
                  {}, FALSE)}
        /\ hist' = [hist EXCEPT ![t.id].started = @ + 1]
  /\ out' = <<>>
  /\ UNCHANGED <<webviewVars, globalState,
                 disk, nextId, transitionTimers, activelyEditing, changedFunctions,
                 cachedCallGraphs, fileGraphs, lastEvent, cgWriter,
                 repoFiles, crossFileCalls>>

DebounceFire(t) ==
  /\ t \in debounceTimers
  /\ debounceTimers' = debounceTimers \ {t}
  /\ pendingChanges' = deletePendingChange(t.file)
  /\ \E readOk \in BOOLEAN :
       IF readOk
       THEN LET content      == disk[t.file]
                newCallGraph == extractCallGraph(content)
            IN /\ runs' = runs \cup
                    {Run(t.id, t.file, "L389", {content}, newCallGraph,
                         getCachedCallGraph(t.file), getFileGraph(fileGraphs, t.file),
                         {}, FALSE)}
               /\ hist' = [hist EXCEPT ![t.id].started = @ + 1]
       ELSE /\ runs' = runs \cup
                 {Run(t.id, t.file, "L322", {}, EmptyMap, {}, {}, {},
                      isFileCached(fileGraphs, t.file))}
            /\ hist' = [hist EXCEPT ![t.id].started = @ + 1, ![t.id].outcome = "null",
                                    ![t.id].cached = isFileCached(fileGraphs, t.file)]
  /\ out' = <<>>
  /\ UNCHANGED <<webviewVars, globalState,
                 disk, nextId, transitionTimers, activelyEditing, changedFunctions,
                 cachedCallGraphs, fileGraphs, lastEvent, cgWriter,
                 repoFiles, crossFileCalls>>

(***************************************************************************)
(* The patch of a changed file: applyLocalUpdate's result with its         *)
(* changedFunctions filled in from the diff.                               *)
(***************************************************************************)
\* PatchOf that reports only the added and removed functions
PatchOfAddedRemoved(fileGraph, diff, newCallGraph, relativePath) ==
  [applyLocalUpdate(fileGraph, diff, newCallGraph, relativePath)
     EXCEPT !.changedFunctions = diff.addedFunctions \cup diff.removedFunctions]

PatchOf(fileGraph, diff, newCallGraph, relativePath) ==
  [applyLocalUpdate(fileGraph, diff, newCallGraph, relativePath)
     EXCEPT !.changedFunctions = diff.addedFunctions \cup diff.removedFunctions
                                   \cup diff.modifiedFunctions]

(***************************************************************************)
(* performLocalUpdate resumes after `await cache.getMergedGraph([file])`.  *)
(* With a cached call graph and a cached file graph it diffs and patches; *)
(* otherwise it caches the new call graph and asks for the file's graph   *)
(* again.                                                                  *)
(***************************************************************************)
\* Resume389 that caches the new call graph also when the diff is empty
Resume389AlwaysCaches(r) ==
  /\ r \in runs /\ r.pc = "L389"
  /\ IF r.oldCallGraph # {} /\ r.fileGraph # {}
     THEN LET oldCallGraph == CHOOSE g \in r.oldCallGraph : TRUE
              fileGraph    == CHOOSE g \in r.fileGraph : TRUE
              diff         == diffCallGraphs(oldCallGraph, r.newCallGraph)
          IN IF ~hasChanges(diff)
             THEN /\ Suspend(r, [r EXCEPT !.pc = "L404",
                                   !.result = {[ZeroChangeResult EXCEPT
                                                  !.graph = getMergedGraph(fileGraphs)]}])
                  /\ WriteCallGraph(r, r.newCallGraph)
                  /\ UNCHANGED fileGraphs
             ELSE LET result == PatchOf(fileGraph, diff, r.newCallGraph, r.file)
                  IN /\ WriteCallGraph(r, r.newCallGraph)
                     /\ fileGraphs' = setAnalysisResult(fileGraphs, r.file, result.graph)
                     /\ Suspend(r, [r EXCEPT !.pc = "L430", !.result = {result}])
     ELSE /\ WriteCallGraph(r, r.newCallGraph)
          /\ Suspend(r, [r EXCEPT !.pc = "L445",
                           !.fileGraph = getFileGraph(fileGraphs, r.file)])
          /\ UNCHANGED fileGraphs
  /\ out' = <<>>
  /\ UNCHANGED <<webviewVars, globalState,
                 disk, nextId, debounceTimers, pendingChanges, transitionTimers,
                 activelyEditing, changedFunctions, hist, lastEvent, repoFiles,
                 crossFileCalls>>

Resume389(r) ==
  /\ r \in runs /\ r.pc = "L389"
  /\ IF r.oldCallGraph # {} /\ r.fileGraph # {}
     THEN LET oldCallGraph == CHOOSE g \in r.oldCallGraph : TRUE
              fileGraph    == CHOOSE g \in r.fileGraph : TRUE
              diff         == diffCallGraphs(oldCallGraph, r.newCallGraph)
          IN IF ~hasChanges(diff)
             THEN /\ Suspend(r, [r EXCEPT !.pc = "L404",
                                   !.result = {[ZeroChangeResult EXCEPT
                                                  !.graph = getMergedGraph(fileGraphs)]}])
                  /\ UNCHANGED <<webviewVars, globalState, cachedCallGraphs, cgWriter, fileGraphs>>
             ELSE LET result == PatchOf(fileGraph, diff, r.newCallGraph, r.file)
                  IN /\ WriteCallGraph(r, r.newCallGraph)
                     /\ fileGraphs' = setAnalysisResult(fileGraphs, r.file, result.graph)
                     /\ Suspend(r, [r EXCEPT !.pc = "L430", !.result = {result}])
     ELSE /\ WriteCallGraph(r, r.newCallGraph)
          /\ Suspend(r, [r EXCEPT !.pc = "L445",
                           !.fileGraph = getFileGraph(fileGraphs, r.file)])
          /\ UNCHANGED fileGraphs
  /\ out' = <<>>
  /\ UNCHANGED <<webviewVars, globalState,
                 disk, nextId, debounceTimers, pendingChanges, transitionTimers,
                 activelyEditing, changedFunctions, hist, lastEvent, repoFiles,
                 crossFileCalls>>

(***************************************************************************)
(* performLocalUpdate returned null: the callback asks cache.isFileCached. *)
(***************************************************************************)
ReturnNull(r) ==
  /\ Suspend(r, [r EXCEPT !.pc = "L322", !.isCached = isFileCached(fileGraphs, r.file),
                   !.result = {}])
  /\ hist' = [hist EXCEPT ![r.id].outcome = "null",
                          ![r.id].cached = isFileCached(fileGraphs, r.file)]
  /\ out' = <<>>
  /\ UNCHANGED <<webviewVars, globalState, transitionTimers, activelyEditing, changedFunctions>>

(***************************************************************************)
(* performLocalUpdate resumes after the second                             *)
(* `await cache.getMergedGraph([file])` of the no-call-graph branch.       *)
(***************************************************************************)
\* Resume445 that builds the graph when the file is relevant or has functions
Resume445Either(r) ==
  /\ r \in runs /\ r.pc = "L445"
  /\ LET content == CHOOSE c \in r.content : TRUE
     IN IF r.fileGraph # {} /\ (CHOOSE g \in r.fileGraph : TRUE).nodes # {}
        THEN /\ Suspend(r, [r EXCEPT !.pc = "L448",
                              !.result = {[ZeroChangeResult EXCEPT
                                             !.graph = getMergedGraph(fileGraphs)]}])
             /\ out' = <<>>
             /\ UNCHANGED <<webviewVars, globalState,
                            fileGraphs, hist, transitionTimers, activelyEditing,
                            changedFunctions>>
        ELSE IF content.llm \/ DOMAIN r.newCallGraph # {}
        THEN LET newGraph == createGraphFromCallGraph(r.newCallGraph, r.file)
                 result   == [graph |-> newGraph,
                              nodesAdded |-> NodeIds(newGraph),
                              nodesRemoved |-> {}, nodesUpdated |-> {},
                              edgesAdded |-> Cardinality(newGraph.edges),
                              edgesRemoved |-> 0,
                              needsMetadata |-> NodeIds(newGraph),
                              changedFunctions |-> DOMAIN r.newCallGraph]
             IN /\ fileGraphs' = setAnalysisResult(fileGraphs, r.file, newGraph)
                /\ Suspend(r, [r EXCEPT !.pc = "L473", !.result = {result}])
                /\ out' = <<>>
                /\ UNCHANGED <<webviewVars, globalState,
                               hist, transitionTimers, activelyEditing, changedFunctions>>
        ELSE /\ ReturnNull(r)
             /\ UNCHANGED fileGraphs
  /\ UNCHANGED <<webviewVars, globalState,
                 disk, nextId, debounceTimers, pendingChanges, cachedCallGraphs,
                 lastEvent, cgWriter,
                 repoFiles, crossFileCalls>>

Resume445(r) ==
  /\ r \in runs /\ r.pc = "L445"
  /\ LET content == CHOOSE c \in r.content : TRUE
     IN IF r.fileGraph # {} /\ (CHOOSE g \in r.fileGraph : TRUE).nodes # {}
        THEN /\ Suspend(r, [r EXCEPT !.pc = "L448",
                              !.result = {[ZeroChangeResult EXCEPT
                                             !.graph = getMergedGraph(fileGraphs)]}])
             /\ out' = <<>>
             /\ UNCHANGED <<webviewVars, globalState,
                            fileGraphs, hist, transitionTimers, activelyEditing,
                            changedFunctions>>
        ELSE IF content.llm /\ DOMAIN r.newCallGraph # {}
        THEN LET newGraph == createGraphFromCallGraph(r.newCallGraph, r.file)
                 result   == [graph |-> newGraph,
                              nodesAdded |-> NodeIds(newGraph),
                              nodesRemoved |-> {}, nodesUpdated |-> {},
                              edgesAdded |-> Cardinality(newGraph.edges),
                              edgesRemoved |-> 0,
                              needsMetadata |-> NodeIds(newGraph),
                              changedFunctions |-> DOMAIN r.newCallGraph]
             IN /\ fileGraphs' = setAnalysisResult(fileGraphs, r.file, newGraph)
                /\ Suspend(r, [r EXCEPT !.pc = "L473", !.result = {result}])
                /\ out' = <<>>
                /\ UNCHANGED <<webviewVars, globalState,
                               hist, transitionTimers, activelyEditing, changedFunctions>>
        ELSE /\ ReturnNull(r)
             /\ UNCHANGED fileGraphs
  /\ UNCHANGED <<webviewVars, globalState,
                 disk, nextId, debounceTimers, pendingChanges, cachedCallGraphs,
                 lastEvent, cgWriter,
                 repoFiles, crossFileCalls>>

(***************************************************************************)
(* performLocalUpdate resumes after `await cache.setAnalysisResult(...)`:  *)
(* it updates the cross-file state and asks for the merged graph to       *)
(* display.                                                                *)
(***************************************************************************)
ResumeStored(r) ==
  /\ r \in runs /\ r.pc \in {"L430", "L473"}
  /\ LET result  == CHOOSE x \in r.result : TRUE
         content == CHOOSE c \in r.content : TRUE
         updated == updateCrossFileState(content, r.file)
     IN /\ repoFiles' = updated.repoFiles
        /\ crossFileCalls' = updated.crossFileCalls
        /\ Suspend(r, [r EXCEPT !.pc = IF r.pc = "L430" THEN "L436" ELSE "L479",
                         !.result = {[result EXCEPT !.graph = getMergedGraph(fileGraphs)]}])
  /\ out' = <<>>
  /\ UNCHANGED <<webviewVars, globalState,
                 disk, nextId, debounceTimers, pendingChanges, transitionTimers,
                 activelyEditing, changedFunctions, cachedCallGraphs, fileGraphs,
                 hist, lastEvent, cgWriter>>

(***************************************************************************)
(* The timer callback gets a PatchResult from performLocalUpdate.          *)
(***************************************************************************)
\* IsStructural that also counts a patch with changed functions only
IsStructuralOrChanged(localResult) ==
  \/ localResult.nodesAdded # {}
  \/ localResult.nodesRemoved # {}
  \/ localResult.edgesAdded > 0
  \/ localResult.edgesRemoved > 0
  \/ localResult.changedFunctions # {}

\* the test that decides between a re-render and "no structural changes"
IsStructural(localResult) ==
  \/ localResult.nodesAdded # {}
  \/ localResult.nodesRemoved # {}
  \/ localResult.edgesAdded > 0
  \/ localResult.edgesRemoved > 0

\* buildMetadataContext yields a context when the file has a cached call graph
buildMetadataContext(filePath) == getCachedCallGraph(filePath) # {}

\* HandleResult that queues the file only when the patch added a node
HandleResultQueuesAdded(r, localResult) ==
  LET zero == /\ localResult.nodesAdded = {} /\ localResult.nodesRemoved = {}
              /\ localResult.edgesAdded = 0 /\ localResult.edgesRemoved = 0
  IN
  IF IsStructural(localResult)
  THEN LET update == Out("updateGraph", r, "", localResult.changedFunctions,
                         localResult.needsMetadata)
           queue  == IF localResult.nodesAdded # {} /\ buildMetadataContext(r.file)
                     THEN <<Out("queueFile", r, "", {}, localResult.needsMetadata)>>
                     ELSE <<>>
           arm    == localResult.changedFunctions # {}
           cleared == clearActivelyEditing(r.file)
           transitionTimer == [id |-> r.id, file |-> r.file,
                               functions |-> localResult.changedFunctions]
       IN /\ out' = <<update>> \o queue
          /\ transitionTimers' =
               IF arm THEN cleared.timers \cup {transitionTimer} ELSE transitionTimers
          /\ activelyEditing' =
               IF arm THEN MapSet(cleared.map, r.file,
                                  [timer |-> transitionTimer.id,
                                   functions |-> localResult.changedFunctions])
               ELSE activelyEditing
          /\ UNCHANGED changedFunctions
          /\ hist' = [hist EXCEPT ![r.id].outcome = "patch",
                                  ![r.id].zeroPatch = zero,
                                  ![r.id].calls = @ \cup {"updateGraph"} \cup
                                       (IF queue # <<>> THEN {"queueFile"} ELSE {}),
                                  ![r.id].patchEv = IF arm THEN lastEvent[r.file] ELSE @]
  ELSE /\ transitionTimers' = clearActivelyEditing(r.file).timers
       /\ activelyEditing' = clearActivelyEditing(r.file).map
       /\ changedFunctions' = clearChangedFunctions(r.file)
       /\ out' = <<Out("notifyFileStateChange", r, "unchanged", {}, {})>>
       /\ hist' = [hist EXCEPT ![r.id].outcome = "patch",
                               ![r.id].zeroPatch = zero,
                               ![r.id].calls = @ \cup {"notifyFileStateChange"}]

\* HandleResult whose "no structural changes" branch leaves the transition timer armed
HandleResultKeepsTimer(r, localResult) ==
  LET zero == /\ localResult.nodesAdded = {} /\ localResult.nodesRemoved = {}
              /\ localResult.edgesAdded = 0 /\ localResult.edgesRemoved = 0
  IN
  IF IsStructural(localResult)
  THEN LET update == Out("updateGraph", r, "", localResult.changedFunctions,
                         localResult.needsMetadata)
           queue  == IF localResult.needsMetadata # {} /\ buildMetadataContext(r.file)
                     THEN <<Out("queueFile", r, "", {}, localResult.needsMetadata)>>
                     ELSE <<>>
           arm    == localResult.changedFunctions # {}
           cleared == clearActivelyEditing(r.file)
           transitionTimer == [id |-> r.id, file |-> r.file,
                               functions |-> localResult.changedFunctions]
       IN /\ out' = <<update>> \o queue
          /\ transitionTimers' =
               IF arm THEN cleared.timers \cup {transitionTimer} ELSE transitionTimers
          /\ activelyEditing' =
               IF arm THEN MapSet(cleared.map, r.file,
                                  [timer |-> transitionTimer.id,
                                   functions |-> localResult.changedFunctions])
               ELSE activelyEditing
          /\ UNCHANGED changedFunctions
          /\ hist' = [hist EXCEPT ![r.id].outcome = "patch",
                                  ![r.id].zeroPatch = zero,
                                  ![r.id].calls = @ \cup {"updateGraph"} \cup
                                       (IF queue # <<>> THEN {"queueFile"} ELSE {}),
                                  ![r.id].patchEv = IF arm THEN lastEvent[r.file] ELSE @]
  ELSE /\ UNCHANGED <<transitionTimers, activelyEditing>>
       /\ changedFunctions' = clearChangedFunctions(r.file)
       /\ out' = <<Out("notifyFileStateChange", r, "unchanged", {}, {})>>
       /\ hist' = [hist EXCEPT ![r.id].outcome = "patch",
                               ![r.id].zeroPatch = zero,
                               ![r.id].calls = @ \cup {"notifyFileStateChange"}]

\* HandleResult that arms the transition timer without cancelling the armed one
HandleResultArmsWithoutClear(r, localResult) ==
  LET zero == /\ localResult.nodesAdded = {} /\ localResult.nodesRemoved = {}
              /\ localResult.edgesAdded = 0 /\ localResult.edgesRemoved = 0
  IN
  IF IsStructural(localResult)
  THEN LET update == Out("updateGraph", r, "", localResult.changedFunctions,
                         localResult.needsMetadata)
           queue  == IF localResult.needsMetadata # {} /\ buildMetadataContext(r.file)
                     THEN <<Out("queueFile", r, "", {}, localResult.needsMetadata)>>
                     ELSE <<>>
           arm    == localResult.changedFunctions # {}
           cleared == clearActivelyEditing(r.file)
           transitionTimer == [id |-> r.id, file |-> r.file,
                               functions |-> localResult.changedFunctions]
       IN /\ out' = <<update>> \o queue
          /\ transitionTimers' =
               IF arm THEN transitionTimers \cup {transitionTimer} ELSE transitionTimers
          /\ activelyEditing' =
               IF arm THEN MapSet(cleared.map, r.file,
                                  [timer |-> transitionTimer.id,
                                   functions |-> localResult.changedFunctions])
               ELSE activelyEditing
          /\ UNCHANGED changedFunctions
          /\ hist' = [hist EXCEPT ![r.id].outcome = "patch",
                                  ![r.id].zeroPatch = zero,
                                  ![r.id].calls = @ \cup {"updateGraph"} \cup
                                       (IF queue # <<>> THEN {"queueFile"} ELSE {}),
                                  ![r.id].patchEv = IF arm THEN lastEvent[r.file] ELSE @]
  ELSE /\ transitionTimers' = clearActivelyEditing(r.file).timers
       /\ activelyEditing' = clearActivelyEditing(r.file).map
       /\ changedFunctions' = clearChangedFunctions(r.file)
       /\ out' = <<Out("notifyFileStateChange", r, "unchanged", {}, {})>>
       /\ hist' = [hist EXCEPT ![r.id].outcome = "patch",
                               ![r.id].zeroPatch = zero,
                               ![r.id].calls = @ \cup {"notifyFileStateChange"}]

HandleResult(r, localResult) ==
  LET zero == /\ localResult.nodesAdded = {} /\ localResult.nodesRemoved = {}
              /\ localResult.edgesAdded = 0 /\ localResult.edgesRemoved = 0
  IN
  IF IsStructural(localResult)
  THEN LET update == Out("updateGraph", r, "", localResult.changedFunctions,
                         localResult.needsMetadata)
           queue  == IF localResult.needsMetadata # {} /\ buildMetadataContext(r.file)
                     THEN <<Out("queueFile", r, "", {}, localResult.needsMetadata)>>
                     ELSE <<>>
           arm    == localResult.changedFunctions # {}
           cleared == clearActivelyEditing(r.file)
           transitionTimer == [id |-> r.id, file |-> r.file,
                               functions |-> localResult.changedFunctions]
       IN /\ out' = <<update>> \o queue
          /\ transitionTimers' =
               IF arm THEN cleared.timers \cup {transitionTimer} ELSE transitionTimers
          /\ activelyEditing' =
               IF arm THEN MapSet(cleared.map, r.file,
                                  [timer |-> transitionTimer.id,
                                   functions |-> localResult.changedFunctions])
               ELSE activelyEditing
          /\ UNCHANGED changedFunctions
          /\ hist' = [hist EXCEPT ![r.id].outcome = "patch",
                                  ![r.id].zeroPatch = zero,
                                  ![r.id].calls = @ \cup {"updateGraph"} \cup
                                       (IF queue # <<>> THEN {"queueFile"} ELSE {}),
                                  ![r.id].patchEv = IF arm THEN lastEvent[r.file] ELSE @]
  ELSE /\ transitionTimers' = clearActivelyEditing(r.file).timers
       /\ activelyEditing' = clearActivelyEditing(r.file).map
       /\ changedFunctions' = clearChangedFunctions(r.file)
       /\ out' = <<Out("notifyFileStateChange", r, "unchanged", {}, {})>>
       /\ hist' = [hist EXCEPT ![r.id].outcome = "patch",
                               ![r.id].zeroPatch = zero,
                               ![r.id].calls = @ \cup {"notifyFileStateChange"}]

\* performLocalUpdate resumes after its last `await cache.getMergedGraph()`
\* and returns its PatchResult to the timer callback, which handles it
ResumeReturn(r) ==
  /\ r \in runs /\ r.pc \in {"L404", "L436", "L448", "L479"}
  /\ HandleResult(r, CHOOSE x \in r.result : TRUE)
  /\ runs' = runs \ {r}
  /\ UNCHANGED <<webviewVars, globalState,
                 disk, nextId, debounceTimers, pendingChanges, cachedCallGraphs,
                 fileGraphs, lastEvent, cgWriter,
                 repoFiles, crossFileCalls>>

\* Resume322 that falls back to the full analysis whatever isFileCached said
Resume322AlwaysFallback(r) ==
  /\ r \in runs /\ r.pc = "L322"
  /\ Suspend(r, [r EXCEPT !.pc = "L327", !.content = {disk[r.file]}])
  /\ out' = <<Out("showLoading", r, "", {}, {}), Out("fallbackAnalyze", r, "", {}, {})>>
  /\ hist' = [hist EXCEPT ![r.id].outcome = "escalated", ![r.id].fallback = TRUE,
                          ![r.id].calls = @ \cup {"showLoading", "fallbackAnalyze"}]
  /\ UNCHANGED <<webviewVars, globalState,
                 disk, nextId, debounceTimers, pendingChanges, transitionTimers,
                 activelyEditing, changedFunctions, cachedCallGraphs, fileGraphs,
                 lastEvent, cgWriter,
                 repoFiles, crossFileCalls>>

\* Resume322 that reports 'unchanged' for a file it ignores
Resume322NotifiesIgnored(r) ==
  /\ r \in runs /\ r.pc = "L322"
  /\ IF r.isCached
     THEN /\ Suspend(r, [r EXCEPT !.pc = "L327", !.content = {disk[r.file]}])
          /\ out' = <<Out("showLoading", r, "", {}, {}), Out("fallbackAnalyze", r, "", {}, {})>>
          /\ hist' = [hist EXCEPT ![r.id].outcome = "escalated", ![r.id].fallback = TRUE,
                                  ![r.id].calls = @ \cup {"showLoading", "fallbackAnalyze"}]
     ELSE /\ runs' = runs \ {r}
          /\ out' = <<Out("notifyFileStateChange", r, "unchanged", {}, {})>>
          /\ hist' = [hist EXCEPT ![r.id].outcome = "ignored",
                                  ![r.id].calls = @ \cup {"notifyFileStateChange"}]
  /\ UNCHANGED <<webviewVars, globalState,
                 disk, nextId, debounceTimers, pendingChanges, transitionTimers,
                 activelyEditing, changedFunctions, cachedCallGraphs, fileGraphs,
                 lastEvent, cgWriter,
                 repoFiles, crossFileCalls>>

(***************************************************************************)
(* The timer callback resumes after `await cache.isFileCached(filePath)`:  *)
(* a file analysed before goes to the full analysis, any other is ignored. *)
(***************************************************************************)
Resume322(r) ==
  /\ r \in runs /\ r.pc = "L322"
  /\ IF r.isCached
     THEN /\ Suspend(r, [r EXCEPT !.pc = "L327", !.content = {disk[r.file]}])
          /\ out' = <<Out("showLoading", r, "", {}, {}), Out("fallbackAnalyze", r, "", {}, {})>>
          /\ hist' = [hist EXCEPT ![r.id].outcome = "escalated", ![r.id].fallback = TRUE,
                                  ![r.id].calls = @ \cup {"showLoading", "fallbackAnalyze"}]
     ELSE /\ runs' = runs \ {r}
          /\ out' = <<>>
          /\ hist' = [hist EXCEPT ![r.id].outcome = "ignored"]
  /\ UNCHANGED <<webviewVars, globalState,
                 disk, nextId, debounceTimers, pendingChanges, transitionTimers,
                 activelyEditing, changedFunctions, cachedCallGraphs, fileGraphs,
                 lastEvent, cgWriter,
                 repoFiles, crossFileCalls>>

(***************************************************************************)
(* The timer callback resumes after `await fallbackAnalyze(uri)`.  The     *)
(* full analysis has stored the classified graph and the call graph of    *)
(* the content it read when it started.                                    *)
(***************************************************************************)
Resume327(r) ==
  /\ r \in runs /\ r.pc = "L327"
  /\ LET callGraph == extractCallGraph(CHOOSE c \in r.content : TRUE)
     IN /\ fileGraphs' = setAnalysisResult(fileGraphs, r.file,
                                           analysedGraph(callGraph, r.file))
        /\ WriteCallGraph(r, callGraph)
  /\ changedFunctions' = clearChangedFunctions(r.file)
  /\ out' = <<Out("notifyFileStateChange", r, "unchanged", {}, {})>>
  /\ hist' = [hist EXCEPT ![r.id].outcome = "fallback",
                          ![r.id].calls = @ \cup {"notifyFileStateChange"}]
  /\ runs' = runs \ {r}
  /\ UNCHANGED <<webviewVars, globalState,
                 disk, nextId, debounceTimers, pendingChanges, transitionTimers,
                 activelyEditing, lastEvent, repoFiles, crossFileCalls>>

(***************************************************************************)
(* The active -> changed timer fires.                                      *)
(***************************************************************************)
TransitionFire(t) ==
  /\ t \in transitionTimers
  /\ transitionTimers' = clearActivelyEditing(t.file).timers \ {t}
  /\ activelyEditing' = clearActivelyEditing(t.file).map
  /\ changedFunctions' = MapSet(changedFunctions, t.file, t.functions)
  /\ out' = <<[call |-> "notifyFileStateChange", file |-> t.file, run |-> t.id,
               state |-> "changed", functions |-> t.functions, pending |-> {}]>>
  /\ hist' = [hist EXCEPT ![t.id].changedN = @ + 1]
  /\ UNCHANGED <<webviewVars, globalState,
                 disk, nextId, debounceTimers, pendingChanges, cachedCallGraphs,
                 fileGraphs, runs, lastEvent, cgWriter,
                 repoFiles, crossFileCalls>>

Next ==
  \/ \E f \in Files, source \in Sources, content \in Contents :
       ChangeEvent(f, source, content)
  \/ \E t \in debounceTimers : DebounceFire(t)
  \/ \E r \in runs : Resume389(r)
  \/ \E r \in runs : Resume445(r)
  \/ \E r \in runs : ResumeStored(r)
  \/ \E r \in runs : ResumeReturn(r)
  \/ \E r \in runs : Resume322(r)
  \/ \E r \in runs : Resume327(r)
  \/ \E t \in transitionTimers : TransitionFire(t)

Spec == Init /\ [][Next]_vars

(***************************************************************************)
(* The event loop runs every expired timer and every settled await.  The   *)
(* full analysis is an external call and may never return.                 *)
(***************************************************************************)
FairSpec ==
  /\ Spec
  /\ WF_vars(\E t \in debounceTimers : DebounceFire(t))
  /\ WF_vars(\E t \in transitionTimers : TransitionFire(t))
  /\ WF_vars(\E r \in runs : Resume389(r) \/ Resume445(r) \/ ResumeStored(r)
                              \/ ResumeReturn(r) \/ Resume322(r))

Armed(id) == \E t \in debounceTimers : t.id = id

TransitionArmed(id) == \E t \in transitionTimers : t.id = id

(***************************************************************************)
(* C1.  Last-edit-wins debounce: each file has at most one armed debounce  *)
(* timer, it is the timer of the file's latest change event and the one   *)
(* pendingChanges records; a timer superseded by a later event is no       *)
(* longer armed and its callback has never run.                            *)
(***************************************************************************)
LastEditWins ==
  /\ \A f \in Files : Cardinality({t \in debounceTimers : t.file = f}) <= 1
  /\ \A t \in debounceTimers :
       /\ t.id = lastEvent[t.file]
       /\ MapHas(pendingChanges, t.file) /\ pendingChanges[t.file] = t.id
  /\ \A id \in EventIds :
       hist[id].cancelled => ~Armed(id) /\ hist[id].started = 0

\* an event arrived while the file's timer was armed and a new timer is armed
LastEditWinsWitness ==
  \E id \in EventIds, t \in debounceTimers :
    hist[id].cancelled /\ t.file = hist[id].file /\ t.id > id

(***************************************************************************)
(* C2.  Every armed debounce timer leads to exactly one pipeline run of    *)
(* its event unless a later event of the same file supersedes it; no      *)
(* event runs the pipeline twice and a superseded event never runs it.     *)
(***************************************************************************)
DebounceRunsLastEvent ==
  /\ [](\A id \in EventIds :
          /\ hist[id].started <= 1
          /\ hist[id].cancelled => hist[id].started = 0)
  /\ \A id \in EventIds :
       Armed(id) ~> (hist[id].started = 1 \/ hist[id].cancelled)

\* a burst of two events of one file: the first superseded, the second ran
DebounceRunsLastEventWitness ==
  \E a \in EventIds, b \in EventIds :
    /\ a < b /\ hist[a].file = hist[b].file
    /\ hist[a].cancelled /\ hist[a].started = 0
    /\ hist[b].started = 1

(***************************************************************************)
(* C3.  No two timer callbacks of one file are in progress at the same     *)
(* time.                                                                   *)
(***************************************************************************)
NoParallelRuns ==
  \A f \in TrackedFiles : Cardinality({r \in runs : r.file = f}) <= 1

(***************************************************************************)
(* C4.  The cached call graph of a file is never overwritten by an         *)
(* earlier run: its last writer is the latest run that wrote it.           *)
(***************************************************************************)
CallGraphInArrivalOrder ==
  \A f \in TrackedFiles : cgWriter[f].last = cgWriter[f].max

(***************************************************************************)
(* C5.  A run whose PatchResult has no added or removed node and no added  *)
(* or removed edge calls no updateGraph, arms no active -> changed timer   *)
(* and never has a 'changed' notification emitted on its account.          *)
(***************************************************************************)
ZeroPatchNoRender ==
  \A id \in EventIds :
    hist[id].zeroPatch =>
      /\ "updateGraph" \notin hist[id].calls
      /\ ~TransitionArmed(id)
      /\ hist[id].changedN = 0
      /\ hist[id].patchEv = 0

\* a patch that changed functions (a moved line span) but no node and no edge
ZeroPatchNoRenderWitness ==
  \E id \in EventIds :
    /\ hist[id].zeroPatch /\ hist[id].outcome = "patch"
    /\ hist[id].file \in TrackedFiles /\ cgWriter[hist[id].file].last = id
    /\ "notifyFileStateChange" \in hist[id].calls

(***************************************************************************)
(* C6.  After a null result the full analysis is invoked if and only if    *)
(* cache.isFileCached was true; a run that got a PatchResult never         *)
(* invokes it.                                                             *)
(***************************************************************************)
FallbackIffCached ==
  \A id \in EventIds :
    /\ hist[id].outcome \in {"escalated", "fallback", "ignored"} =>
         (hist[id].fallback <=> hist[id].cached)
    /\ hist[id].fallback <=> "fallbackAnalyze" \in hist[id].calls
    /\ hist[id].outcome = "patch" => ~hist[id].fallback

\* a null result of an analysed file went to the full analysis, which returned
FallbackIffCachedWitness ==
  \E id \in EventIds :
    hist[id].outcome = "fallback" /\ hist[id].cached /\ hist[id].fallback

(***************************************************************************)
(* C7.  A run that ends with null for a file not analysed before calls no *)
(* collaborator, and the step that ignores the file leaves the file's     *)
(* transition timer, active-editing record and changed-functions record    *)
(* alone.                                                                  *)
(***************************************************************************)
IgnoredFileUntouched ==
  /\ [](\A id \in EventIds : hist[id].outcome = "ignored" => hist[id].calls = {})
  /\ [][\A id \in EventIds :
          (hist[id].outcome # "ignored" /\ hist'[id].outcome = "ignored") =>
            /\ out' = <<>>
            /\ UNCHANGED <<webviewVars, globalState,
                           transitionTimers, activelyEditing, changedFunctions>>]_vars

\* a new file without LLM calls was read, found not cached and dropped
IgnoredFileUntouchedWitness ==
  \E id \in EventIds :
    /\ hist[id].outcome = "ignored" /\ hist[id].started = 1
    /\ ~isFileCached(fileGraphs, hist[id].file)

(***************************************************************************)
(* C8.  When the full analysis of an escalated file has completed and its  *)
(* 'unchanged' notification is sent, no active -> changed timer is still   *)
(* pending that a patch of the file armed before the escalated change      *)
(* event arrived.                                                          *)
(***************************************************************************)
FallbackResetsToIdle ==
  \A i \in DOMAIN out :
    (out[i].call = "notifyFileStateChange" /\ out[i].state = "unchanged"
       /\ hist[out[i].run].fallback) =>
      \A t \in transitionTimers :
        t.file = out[i].file => ~(hist[t.id].patchEv < out[i].run)

(***************************************************************************)
(* C9.  The active -> changed timer of a patch is lost (cancelled without  *)
(* its 'changed' notification) only if a change event of the file arrived *)
(* after the patch, and no patch gets more than one 'changed'              *)
(* notification.                                                           *)
(***************************************************************************)
ChangedAfterInactivity ==
  \A id \in EventIds :
    /\ hist[id].changedN <= 1
    /\ (hist[id].patchEv > 0 /\ ~TransitionArmed(id) /\ hist[id].changedN = 0) =>
         lastEvent[hist[id].file] > hist[id].patchEv

(***************************************************************************)
(* C10.  A 'changed' notification of a patch is emitted only if no change  *)
(* event of the file arrived since the patch.                              *)
(***************************************************************************)
ChangedOnlyWithoutLaterEdit ==
  \A i \in DOMAIN out :
    out[i].state = "changed" => lastEvent[out[i].file] = hist[out[i].run].patchEv

(***************************************************************************)
(* C11.  Once a pipeline run of a file has returned its PatchResult and no *)
(* run of the file is in flight, every node of the file's persisted graph *)
(* is a function of the file's cached call graph.                          *)
(***************************************************************************)
GraphNodesInCallGraph ==
  \A f \in TrackedFiles :
    (/\ \E id \in EventIds : hist[id].file = f /\ hist[id].outcome = "patch"
     /\ ~\E r \in runs : r.file = f
     /\ MapHas(fileGraphs, f))
    => \A n \in fileGraphs[f].nodes :
         /\ MapHas(cachedCallGraphs, f)
         /\ n.id[2] \in DOMAIN cachedCallGraphs[f]

(***************************************************************************)
(* The differ and the updater on arbitrary inputs: a.py has a cached call *)
(* graph (of its text before the edit) and a persisted graph, the edited  *)
(* text is on disk and its debounce timer is armed.  Texts declare up to  *)
(* two functions, each with a line span and up to MaxCalls calls.          *)
(***************************************************************************)
MaxCalls == 2

MaxLine == 2

DiffNames == <<"f", "g">>

Callees == {"g", "h"}

CallLists == UNION {[1..n -> Callees] : n \in 0..MaxCalls}

DeclsOf(name) ==
  {Decl(name, 1, e, [i \in DOMAIN c |-> Call(<<c[i]>>, "()")]) :
     e \in 1..MaxLine, c \in CallLists}

\* a text the parser rejects
TextBroken == Text(<<>>, <<>>, FALSE, TRUE)

DiffContents ==
  {Text(<<>>, d, TRUE, TRUE) :
     d \in {<<>>} \cup {<<x>> : x \in DeclsOf(DiffNames[1]) \cup DeclsOf(DiffNames[2])}
            \cup {<<x, y>> : x \in DeclsOf(DiffNames[1]), y \in DeclsOf(DiffNames[2])}}
  \cup {TextBroken}

\* the persisted graphs of a file whose cached call graph is callGraph: a
\* node per function in names, all pending or all classified
DiffGraphs(callGraph, relativePath) ==
  {[nodes |-> {Node(relativePath, n, p) : n \in names},
    edges |-> {e \in createGraphFromCallGraph(callGraph, relativePath).edges :
                 e[1][2] \in names /\ e[2][2] \in names}] :
     names \in SUBSET Range(DiffNames), p \in BOOLEAN}

DiffInit ==
  /\ \E oldContent \in DiffContents, newContent \in DiffContents :
       /\ disk = [f \in TrackedFiles |-> newContent]
       /\ cachedCallGraphs = [f \in TrackedFiles |-> extractCallGraph(oldContent)]
       /\ \E graph \in DiffGraphs(extractCallGraph(oldContent), FileA) :
            fileGraphs = [f \in TrackedFiles |-> graph]
  /\ nextId = 2
  /\ debounceTimers = {[id |-> 1, file |-> FileA, source |-> "save", delay |-> DebounceMs,
                        config |-> DefaultConfig]}
  /\ pendingChanges = MapSet(EmptyMap, FileA, 1)
  /\ transitionTimers = {}
  /\ activelyEditing = EmptyMap
  /\ changedFunctions = EmptyMap
  /\ repoFiles = <<>>
  /\ crossFileCalls = <<>>
  /\ globalState = EmptyMap
  /\ panel = NoPanel
  /\ filePickerResolver = 0
  /\ promises = <<>>
  /\ runs = {}
  /\ out = <<>>
  /\ hist = [id \in EventIds |-> IF id = 1 THEN [NoHist EXCEPT !.file = FileA] ELSE NoHist]
  /\ lastEvent = [f \in Files |-> IF f = FileA THEN 1 ELSE 0]
  /\ cgWriter = [f \in TrackedFiles |-> [last |-> 0, max |-> 0]]

DiffNext ==
  \/ \E t \in debounceTimers : DebounceFire(t)
  \/ \E r \in runs : Resume389(r)

DiffSpec == DiffInit /\ [][DiffNext]_vars

\* the runs of performLocalUpdate that have computed a diff
Diffed == {r \in runs : r.pc \in {"L404", "L430"}}

\* the runs that have applied a patch
Patched == {r \in runs : r.pc = "L430"}

OldOf(r) == CHOOSE g \in r.oldCallGraph : TRUE

GraphOf(r) == CHOOSE g \in r.fileGraph : TRUE

ResultOf(r) == CHOOSE x \in r.result : TRUE

DiffOf(r) == diffCallGraphs(OldOf(r), r.newCallGraph)

(***************************************************************************)
(* C12.  For every function removed by the diff, the patched graph has no *)
(* node of that function and no edge from or to it, and the node id is    *)
(* reported in nodesRemoved.                                               *)
(***************************************************************************)
RemovedFunctionsLeaveGraph ==
  \A r \in Patched : \A f \in DiffOf(r).removedFunctions :
    LET id == NodeId(r.file, f)
    IN /\ id \notin NodeIds(ResultOf(r).graph)
       /\ \A e \in ResultOf(r).graph.edges : e[1] # id /\ e[2] # id
       /\ id \in ResultOf(r).nodesRemoved

\* a removed function whose node had an edge from another function
RemovedFunctionsLeaveGraphWitness ==
  \E r \in Patched : \E f \in DiffOf(r).removedFunctions :
    /\ NodeId(r.file, f) \in NodeIds(GraphOf(r))
    /\ \E e \in GraphOf(r).edges : e[2] = NodeId(r.file, f) /\ e[1] # e[2]
    /\ NodeIds(ResultOf(r).graph) # {}

(***************************************************************************)
(* C13.  Every function added by the diff has a node with pending = TRUE  *)
(* in the patched graph, listed in nodesAdded and in needsMetadata; every *)
(* function modified by the diff is listed in changedFunctions and its    *)
(* node is the one the graph had: same id, same pending flag.              *)
(***************************************************************************)
AddedPendingModifiedKept ==
  \A r \in Patched :
    /\ \A f \in DiffOf(r).addedFunctions :
         /\ Node(r.file, f, TRUE) \in ResultOf(r).graph.nodes
         /\ NodeId(r.file, f) \in ResultOf(r).nodesAdded
         /\ NodeId(r.file, f) \in ResultOf(r).needsMetadata
    /\ \A f \in DiffOf(r).modifiedFunctions :
         /\ f \in ResultOf(r).changedFunctions
         /\ {n \in ResultOf(r).graph.nodes : n.id = NodeId(r.file, f)} =
            {n \in GraphOf(r).nodes : n.id = NodeId(r.file, f)}

\* one function added and another, classified, function modified
AddedPendingModifiedKeptWitness ==
  \E r \in Patched :
    /\ DiffOf(r).addedFunctions # {}
    /\ \E f \in DiffOf(r).modifiedFunctions :
         Node(r.file, f, FALSE) \in ResultOf(r).graph.nodes

NewContents == {[c EXCEPT !.llm = l] : c \in DiffContents, l \in BOOLEAN}

NewFileInit ==
  /\ \E content \in NewContents : disk = [f \in TrackedFiles |-> content]
  /\ cachedCallGraphs = EmptyMap
  /\ \E stored \in BOOLEAN :
       fileGraphs = IF stored THEN [f \in TrackedFiles |-> EmptyGraph] ELSE EmptyMap
  /\ nextId = 2
  /\ debounceTimers = {[id |-> 1, file |-> FileA, source |-> "create",
                        delay |-> CreateDebounceMs, config |-> DefaultConfig]}
  /\ pendingChanges = MapSet(EmptyMap, FileA, 1)
  /\ transitionTimers = {}
  /\ activelyEditing = EmptyMap
  /\ changedFunctions = EmptyMap
  /\ repoFiles = <<>>
  /\ crossFileCalls = <<>>
  /\ globalState = EmptyMap
  /\ panel = NoPanel
  /\ filePickerResolver = 0
  /\ promises = <<>>
  /\ runs = {}
  /\ out = <<>>
  /\ hist = [id \in EventIds |-> IF id = 1 THEN [NoHist EXCEPT !.file = FileA] ELSE NoHist]
  /\ lastEvent = [f \in Files |-> IF f = FileA THEN 1 ELSE 0]
  /\ cgWriter = [f \in TrackedFiles |-> [last |-> 0, max |-> 0]]

NewFileNext ==
  \/ \E t \in debounceTimers : DebounceFire(t)
  \/ \E r \in runs : Resume389(r)
  \/ \E r \in runs : Resume445(r)

NewFileSpec == NewFileInit /\ [][NewFileNext]_vars

\* the text a run has read
ContentOf(r) == CHOOSE c \in r.content : TRUE

\* the functions the text declares
DeclaredNames(content) == {content.decls[i].name : i \in DOMAIN content.decls}

\* the (caller, callee) pairs of the text whose callee is declared in the text
IntraFileCalls(content) ==
  {p \in UNION {{<<content.decls[i].name, JoinDots(content.decls[i].calls[k].name)>> :
                   k \in DOMAIN content.decls[i].calls} : i \in DOMAIN content.decls} :
     p[2] \in DeclaredNames(content)}

(***************************************************************************)
(* C15.  For a file without cached call graph and without persisted graph *)
(* nodes, performLocalUpdate returns null unless the text is LLM-relevant *)
(* and declares a function; then it persists a graph with one pending     *)
(* node per function and one edge per intra-file call, and its            *)
(* PatchResult has nodesAdded = needsMetadata = all node ids,              *)
(* nodesRemoved empty, edgesRemoved 0 and changedFunctions = all function *)
(* names.                                                                  *)
(***************************************************************************)
NewFileGetsPendingGraph ==
  \A r \in runs :
    (r.content # {} /\ r.pc \notin {"L389", "L445"}) =>
      LET content == ContentOf(r)
          ids     == {NodeId(r.file, f) : f \in DeclaredNames(content)}
      IN IF content.llm /\ DeclaredNames(content) # {}
         THEN /\ r.pc = "L473"
              /\ fileGraphs[r.file] =
                   [nodes |-> {Node(r.file, f, TRUE) : f \in DeclaredNames(content)},
                    edges |-> {<<NodeId(r.file, p[1]), NodeId(r.file, p[2])>> :
                                 p \in IntraFileCalls(content)}]
              /\ ResultOf(r).graph = fileGraphs[r.file]
              /\ ResultOf(r).nodesAdded = ids
              /\ ResultOf(r).needsMetadata = ids
              /\ ResultOf(r).nodesRemoved = {}
              /\ ResultOf(r).edgesRemoved = 0
              /\ ResultOf(r).changedFunctions = DeclaredNames(content)
         ELSE r.pc = "L322" /\ r.result = {}

\* a relevant new file with two functions, one calling the other
NewFileGetsPendingGraphWitness ==
  \E r \in runs :
    /\ r.pc = "L473"
    /\ Cardinality(ResultOf(r).nodesAdded) = 2
    /\ ResultOf(r).graph.edges # {}
    /\ ResultOf(r).edgesAdded = Cardinality(IntraFileCalls(ContentOf(r)))

(***************************************************************************)
(* C16.  When the new call graph equals the cached one, the diff has no   *)
(* added, removed or modified function and no added or removed edge, and  *)
(* performLocalUpdate takes the no-change path: it returns the            *)
(* zero-change PatchResult.                                                *)
(***************************************************************************)
SelfDiffIsEmpty ==
  \A r \in runs :
    (r.pc # "L389" /\ r.oldCallGraph = {r.newCallGraph} /\ r.fileGraph # {}) =>
      /\ DiffOf(r).addedFunctions = {}
      /\ DiffOf(r).removedFunctions = {}
      /\ DiffOf(r).modifiedFunctions = {}
      /\ DiffOf(r).addedEdges = {}
      /\ DiffOf(r).removedEdges = {}
      /\ r.pc = "L404"
      /\ ResultOf(r) = [ZeroChangeResult EXCEPT !.graph = getMergedGraph(fileGraphs)]

\* an unchanged text with two functions and a call between them
SelfDiffIsEmptyWitness ==
  \E r \in runs :
    /\ r.pc = "L404"
    /\ r.oldCallGraph = {r.newCallGraph}
    /\ Cardinality(DOMAIN r.newCallGraph) = 2
    /\ CallEdges(r.newCallGraph) # {}

(***************************************************************************)
(* C17.  Applying the diff's removed and added function sets to the keys  *)
(* of the old call graph gives the keys of the new one; the added and the *)
(* removed functions are disjoint; the modified functions are keys of     *)
(* both.                                                                   *)
(***************************************************************************)
DiffReproducesKeys ==
  \A r \in Diffed :
    /\ ((DOMAIN OldOf(r)) \ DiffOf(r).removedFunctions) \cup DiffOf(r).addedFunctions
         = DOMAIN r.newCallGraph
    /\ DiffOf(r).addedFunctions \cap DiffOf(r).removedFunctions = {}
    /\ DiffOf(r).modifiedFunctions \subseteq (DOMAIN OldOf(r)) \cap (DOMAIN r.newCallGraph)

\* one function replaced by another
DiffReproducesKeysWitness ==
  \E r \in Diffed :
    /\ DiffOf(r).addedFunctions # {}
    /\ DiffOf(r).removedFunctions # {}

\* a.py declares only f, f calls only callee, and the graph is the one of
\* that text: the single node a.py::f
OnlyFCalls(callGraph, callee) ==
  /\ DOMAIN callGraph = {"f"}
  /\ callGraph["f"].calls = <<callee>>

RenameRun(r) ==
  /\ r.pc # "L389"
  /\ r.oldCallGraph # {} /\ r.fileGraph # {}
  /\ OnlyFCalls(OldOf(r), "g")
  /\ OnlyFCalls(r.newCallGraph, "h")
  /\ OldOf(r)["f"].endLine = r.newCallGraph["f"].endLine
  /\ NodeIds(GraphOf(r)) = {NodeId(r.file, "f")}

RenameDiff(r) ==
  /\ DiffOf(r).modifiedFunctions = {"f"}
  /\ DiffOf(r).removedEdges = {<<"f", "g">>}
  /\ DiffOf(r).addedEdges = {<<"f", "h">>}
  /\ DiffOf(r).addedFunctions = {}
  /\ DiffOf(r).removedFunctions = {}

Occurrences(calls, x) == Cardinality({i \in DOMAIN calls : calls[i] = x})

\* new differs from old only in the order of the calls of function f
ReorderedOnly(old, new, f) ==
  /\ DOMAIN old = DOMAIN new
  /\ f \in DOMAIN old
  /\ \A n \in (DOMAIN old) \ {f} : old[n] = new[n]
  /\ old[f].startLine = new[f].startLine /\ old[f].endLine = new[f].endLine
  /\ old[f].calls # new[f].calls
  /\ Len(old[f].calls) = Len(new[f].calls)
  /\ \A x \in Range(old[f].calls) \cup Range(new[f].calls) :
       Occurrences(old[f].calls, x) = Occurrences(new[f].calls, x)

MaxRepoFiles == 2

MaxCrossCalls == 2

\* b.py importing summarize from ./a and calling a.f and summarize.run
TextImportsA ==
  Text(<<Import(<<Dot, <<"a">>>>, <<"summarize">>)>>,
       <<Decl("summarize", 1, 2, <<Call(<<"a", "f">>, "()"),
                                   Call(<<"summarize", "run">>, "()")>>)>>, TRUE, TRUE)

\* b.py of the scenario: "import a", and run calls a.summarize(x)
TextBCallsA ==
  Text(<<Import(<<(<<"a">>)>>, <<>>)>>,
       <<Decl("run", 1, 2, <<Call(<<"a", "summarize">>, "(x)")>>)>>, TRUE, TRUE)

ResolverContents == Contents \cup {TextB, TextImportsA, TextBCallsA}

ResolverPaths == {FileA, FileB}

RepoEntries ==
  {RepoFile(path, extractFileStructure(content, path).functions) :
     path \in ResolverPaths, content \in {TextF, TextFG, TextB, TextEmpty}}

\* repo indexes: lists of entries, one entry per path at most
RepoIndexes ==
  {index \in UNION {[1..n -> RepoEntries] : n \in 0..MaxRepoFiles} :
     \A i, j \in DOMAIN index : index[i].path = index[j].path => i = j}

KnownCalls ==
  {CrossFileCall(FileA, [name |-> "f", line |-> 1], FileB, "summarize", "b"),
   CrossFileCall(FileA, [name |-> "g", line |-> 5], FileB, "summarize", "b"),
   CrossFileCall(FileB, [name |-> "summarize", line |-> 1], FileA, "f", "a")}

CallLogs == UNION {[1..n -> KnownCalls] : n \in 0..MaxCrossCalls}

ResolverInit ==
  /\ repoFiles \in RepoIndexes
  /\ crossFileCalls \in CallLogs
  /\ globalState = EmptyMap
  /\ panel = NoPanel
  /\ filePickerResolver = 0
  /\ promises = <<>>
  /\ disk = [f \in TrackedFiles |-> TextF]
  /\ nextId = 1
  /\ debounceTimers = {}
  /\ pendingChanges = EmptyMap
  /\ transitionTimers = {}
  /\ activelyEditing = EmptyMap
  /\ changedFunctions = EmptyMap
  /\ cachedCallGraphs = EmptyMap
  /\ fileGraphs = EmptyMap
  /\ runs = {}
  /\ out = <<>>
  /\ hist = [id \in EventIds |-> NoHist]
  /\ lastEvent = [f \in Files |-> 0]
  /\ cgWriter = [f \in TrackedFiles |-> [last |-> 0, max |-> 0]]

\* one call of updateCrossFileState(content, relativePath, log)
Resolve(content, relativePath) ==
  /\ LET updated == updateCrossFileState(content, relativePath)
     IN /\ repoFiles' = updated.repoFiles
        /\ crossFileCalls' = updated.crossFileCalls
  /\ out' = <<[call |-> "updateCrossFileState", content |-> content,
               relativePath |-> relativePath,
               calls |-> crossFileCalls, index |-> repoFiles]>>
  /\ UNCHANGED <<webviewVars, globalState,
                 disk, nextId, debounceTimers, pendingChanges, transitionTimers,
                 activelyEditing, changedFunctions, cachedCallGraphs, fileGraphs,
                 runs, hist, lastEvent, cgWriter>>

ResolverNext ==
  \E content \in ResolverContents, relativePath \in ResolverPaths :
    Resolve(content, relativePath)

ResolverSpec == ResolverInit /\ [][ResolverNext]_vars

(***************************************************************************)
(* C20.  Right after updateCrossFileState(content, relativePath), a       *)
(* second call with the same content and path leaves the repo index and   *)
(* the cross-file calls as the first call left them.                       *)
(***************************************************************************)
ResolverIdempotent ==
  out # <<>> =>
    updateCrossFileState(out[1].content, out[1].relativePath) =
      [repoFiles |-> repoFiles, crossFileCalls |-> crossFileCalls]

\* a call that replaced the file's stale cross-file call by a resolved one
\* and kept the call of another file
ResolverIdempotentWitness ==
  /\ out # <<>>
  /\ \E i \in DOMAIN out[1].calls :
       /\ out[1].calls[i].caller.file = out[1].relativePath
       /\ out[1].calls[i] \notin Range(crossFileCalls)
  /\ \E i \in DOMAIN crossFileCalls : crossFileCalls[i].caller.file = out[1].relativePath
  /\ \E i \in DOMAIN crossFileCalls : crossFileCalls[i].caller.file # out[1].relativePath

\* the functions the repo index lists for path (of its last entry)
IndexedFunctions(path) ==
  UNION {{fn.name : fn \in Range(repoFiles[i].functions)} :
           i \in {k \in DOMAIN repoFiles :
                    /\ repoFiles[k].path = path
                    /\ \A j \in DOMAIN repoFiles : repoFiles[j].path = path => j <= k}}

IsIndexed(path) == \E i \in DOMAIN repoFiles : repoFiles[i].path = path

\* updateCrossFileState has just run for b.py, which imports a and calls
\* a.summarize(x), and a.py has an entry in the repo index
SummarizeScenario ==
  /\ out # <<>>
  /\ out[1].relativePath = FileB
  /\ out[1].content = TextBCallsA
  /\ IsIndexed(FileA)

SummarizeCallExists ==
  \E i \in DOMAIN crossFileCalls :
    /\ crossFileCalls[i].caller.file = FileB
    /\ crossFileCalls[i].callee.file = FileA
    /\ crossFileCalls[i].callee.function = "summarize"

(***************************************************************************)
(* C21, as stated.  b.py imports a.py and calls a.summarize(x): after     *)
(* updateCrossFileState for b.py a cross-file call b.py -> a.py summarize *)
(* exists if and only if a.py's repo index entry lists summarize.          *)
(***************************************************************************)
CallIffExported ==
  SummarizeScenario => (SummarizeCallExists <=> "summarize" \in IndexedFunctions(FileA))

(***************************************************************************)
(* C21, amended.  The call exists if and only if a.py's repo index entry  *)
(* lists summarize or lists no function at all.                            *)
(***************************************************************************)
CallIffExportedOrPermissive ==
  SummarizeScenario =>
    (SummarizeCallExists <=>
       ("summarize" \in IndexedFunctions(FileA) \/ IndexedFunctions(FileA) = {}))

\* the call was resolved against an entry of a.py that lists no function
CallIffExportedWitness ==
  /\ SummarizeScenario
  /\ SummarizeCallExists
  /\ IndexedFunctions(FileA) = {}
  /\ \A i \in DOMAIN out[1].calls : out[1].calls[i].caller.file # FileB

\* the entries of a list of cross-file calls whose caller is, or is not, in file
CallsFrom(calls, file) == SelectSeq(calls, LAMBDA c : c.caller.file = file)

CallsNotFrom(calls, file) == SelectSeq(calls, LAMBDA c : c.caller.file # file)

\* call is what a module.function call expression of content gives for a
\* caller in file relativePath and a target in the repo index
ResolvedFrom(call, content, relativePath) ==
  /\ call.caller.file = relativePath
  /\ call.callee.file # relativePath
  /\ IsIndexed(call.callee.file)
  /\ \E i \in DOMAIN content.decls : \E k \in DOMAIN content.decls[i].calls :
       LET name == content.decls[i].calls[k].name
       IN /\ Len(name) >= 2
          /\ call.caller.function = content.decls[i].name
          /\ call.caller.line = content.decls[i].startLine
          /\ call.callee.module = name[1]
          /\ call.callee.function = JoinDots(Tail(name))

\* the cross-file calls of content that the repo index accepts: the module
\* is an import resolved to another indexed file that lists the function, or
\* lists none
AcceptedCalls(content, relativePath) ==
  LET importMap == BuildImportMap(content.imports, relativePath,
                                  [i \in DOMAIN repoFiles |-> repoFiles[i].path], EmptyMap)
  IN {CrossFileCall(relativePath,
                    [name |-> content.decls[p[1]].name,
                     line |-> content.decls[p[1]].startLine],
                    importMap[content.decls[p[1]].calls[p[2]].name[1]],
                    JoinDots(Tail(content.decls[p[1]].calls[p[2]].name)),
                    content.decls[p[1]].calls[p[2]].name[1]) :
        p \in {q \in UNION {{<<i, k>> : k \in DOMAIN content.decls[i].calls} :
                              i \in DOMAIN content.decls} :
                 LET name == content.decls[q[1]].calls[q[2]].name
                 IN /\ Len(name) >= 2
                    /\ MapHas(importMap, name[1])
                    /\ importMap[name[1]] # relativePath
                    /\ \/ JoinDots(Tail(name)) \in IndexedFunctions(importMap[name[1]])
                       \/ IndexedFunctions(importMap[name[1]]) = {}}}

(***************************************************************************)
(* C22.  After updateCrossFileState for file F with a non-empty repo      *)
(* index, every cross-file call whose caller is in F comes from a         *)
(* module.function call of F's current content, every such call that the  *)
(* repo index accepts is there, and the calls of the other files are the  *)
(* ones there were before, in the same order.                              *)
(***************************************************************************)
ResolverReplacesOwnCalls ==
  (out # <<>> /\ out[1].index # <<>>) =>
    /\ \A c \in Range(CallsFrom(crossFileCalls, out[1].relativePath)) :
         ResolvedFrom(c, out[1].content, out[1].relativePath)
    /\ \A c \in AcceptedCalls(out[1].content, out[1].relativePath) :
         c \in Range(CallsFrom(crossFileCalls, out[1].relativePath))
    /\ CallsNotFrom(crossFileCalls, out[1].relativePath) =
       CallsNotFrom(out[1].calls, out[1].relativePath)

\* a stale call of F is gone, a call of F is resolved, and two calls of
\* other files stay
ResolverReplacesOwnCallsWitness ==
  /\ out # <<>> /\ out[1].index # <<>>
  /\ \E c \in Range(CallsFrom(out[1].calls, out[1].relativePath)) :
       c \notin Range(crossFileCalls)
  /\ CallsFrom(crossFileCalls, out[1].relativePath) # <<>>
  /\ Len(CallsNotFrom(crossFileCalls, out[1].relativePath)) >= 2

\* a recorded call from b.py into a function that a.py's text on disk does
\* not declare, while it declares others
StaleCall(c) ==
  /\ c.caller.file = FileB
  /\ c.callee.file = FileA
  /\ c.callee.function \notin DeclaredNames(disk[FileA])
  /\ DeclaredNames(disk[FileA]) # {}

(***************************************************************************)
(* C23.  A recorded call b.py -> a.py fn whose fn is no longer declared   *)
(* in a.py is gone after the next updateCrossFileState for a.py (with     *)
(* a.py's text) or for b.py.                                               *)
(***************************************************************************)
StaleEdgeCorrected ==
  (/\ out # <<>>
   /\ out[1].index # <<>>
   /\ \/ out[1].relativePath = FileB
      \/ out[1].relativePath = FileA /\ out[1].content = disk[FileA])
  => \A c \in Range(out[1].calls) : StaleCall(c) => c \notin Range(crossFileCalls)

(***************************************************************************)
(* C24.  When the extraction of a file with a cached call graph gives the *)
(* empty call graph, the run leaves the file's persisted graph and its    *)
(* cached call graph as they were.                                         *)
(***************************************************************************)
EmptyExtractionKeepsGraph ==
  \A r \in runs :
    (/\ r.pc # "L389"
     /\ r.content # {}
     /\ r.newCallGraph = EmptyMap
     /\ r.oldCallGraph # {})
    => /\ fileGraphs[r.file] = GraphOf(r)
       /\ cachedCallGraphs[r.file] = OldOf(r)

(***************************************************************************)
(* Exceptions inside performLocalUpdate.  Every continuation of the run   *)
(* (the diff and the patch, the cache calls, updateCrossFileState) is     *)
(* inside the try block; what it throws, or a rejected await, reaches the *)
(* catch clause, which logs and returns null to the timer callback.        *)
(***************************************************************************)
ThrowPoints == {"L389", "L404", "L430", "L436", "L445", "L448", "L473", "L479"}

\* Throw without the try block: the exception ends the timer callback
ThrowEscapes(r) ==
  /\ r \in runs /\ r.pc \in ThrowPoints
  /\ runs' = runs \ {r}
  /\ hist' = [hist EXCEPT ![r.id].outcome = "escaped"]
  /\ out' = <<>>
  /\ UNCHANGED <<webviewVars, globalState,
                 disk, nextId, debounceTimers, pendingChanges, transitionTimers,
                 activelyEditing, changedFunctions, cachedCallGraphs, fileGraphs,
                 repoFiles, crossFileCalls, lastEvent, cgWriter>>

Throw(r) ==
  /\ r \in runs /\ r.pc \in ThrowPoints
  /\ Suspend(r, [r EXCEPT !.pc = "L322", !.isCached = isFileCached(fileGraphs, r.file),
                   !.result = {}])
  /\ hist' = [hist EXCEPT ![r.id].outcome = "null",
                          ![r.id].cached = isFileCached(fileGraphs, r.file),
                          ![r.id].calls = @ \cup {"log"}]
  /\ out' = <<Out("log", r, "Local update failed", {}, {})>>
  /\ UNCHANGED <<webviewVars, globalState,
                 disk, nextId, debounceTimers, pendingChanges, transitionTimers,
                 activelyEditing, changedFunctions, cachedCallGraphs, fileGraphs,
                 repoFiles, crossFileCalls, lastEvent, cgWriter>>

ThrowNext ==
  \/ Next
  \/ \E r \in runs : Throw(r)

ThrowSpec == Init /\ [][ThrowNext]_vars

(***************************************************************************)
(* C25.  A timer callback that has started and is no longer in flight has *)
(* ended by handling a PatchResult, by the fallback analysis or by        *)
(* ignoring the file; a callback whose run threw got null from            *)
(* performLocalUpdate: it never renders a patch, and it is waiting for    *)
(* isFileCached or for the fallback analysis, or has ended in one of the  *)
(* two.                                                                    *)
(***************************************************************************)
ExceptionsBecomeNull ==
  \A id \in EventIds :
    /\ (hist[id].started > 0 /\ ~\E r \in runs : r.id = id)
         => hist[id].outcome \in {"patch", "fallback", "ignored"}
    /\ "log" \in hist[id].calls =>
         /\ hist[id].outcome \in {"null", "escalated", "fallback", "ignored"}
         /\ "updateGraph" \notin hist[id].calls
         /\ \A r \in runs : r.id = id => r.pc \in {"L322", "L327"}

\* a run threw, and the callback fell back to the full analysis
ExceptionsBecomeNullWitness ==
  \E id \in EventIds :
    /\ "log" \in hist[id].calls
    /\ hist[id].outcome = "fallback"

\* the step's calls to the collaborators include queueFile for the run's file
\* with the pending ids
Queued(calls, r, ids) ==
  \E i \in DOMAIN calls :
    calls[i].call = "queueFile" /\ calls[i].file = r.file /\ calls[i].pending = ids

PendingStaysPending ==
  [][\A r \in runs :
       (ResumeReturn(r) /\ IsStructural(ResultOf(r)))
         => \A n \in ResultOf(r).graph.nodes :
              n.pending => n.id \in ResultOf(r).needsMetadata]_vars

(***************************************************************************)
(* The scheduler under every configuration of the debounce delay.          *)
(***************************************************************************)
ConfigNext ==
  \/ \E f \in Files, source \in Sources, content \in Contents,
        config \in FileWatchingConfigs :
       ConfiguredChangeEvent(f, source, content, config)
  \/ \E t \in debounceTimers : DebounceFire(t)
  \/ \E r \in runs : Resume389(r)
  \/ \E r \in runs : Resume445(r)
  \/ \E r \in runs : ResumeStored(r)
  \/ \E r \in runs : ResumeReturn(r)
  \/ \E r \in runs : Resume322(r)
  \/ \E r \in runs : Resume327(r)
  \/ \E t \in transitionTimers : TransitionFire(t)

ConfigSpec == Init /\ [][ConfigNext]_vars

(***************************************************************************)
(* C28.  Under every configuration, the delay of a timer armed for a       *)
(* file-creation event is strictly shorter than the delay the same         *)
(* configuration gives a modification event.                               *)
(***************************************************************************)
CreateDelayShorter ==
  \A t \in debounceTimers :
    t.source = "create" => t.delay < debounceMsFor("save", t.config)

(***************************************************************************)
(* CacheManager (globalState record keyed by a hash of the file set).      *)
(* Paths and contents are strings, kept as sequences of characters, since  *)
(* createWorkspaceCacheKey concatenates them.                              *)
(***************************************************************************)
MaxCacheFiles == 2

MaxCacheEntries == 2

\* the characters of the strings, in collation order
CacheAlphabet == <<"|", ":", "0", "1", "a", "b", "x", "y">>

CachePaths == {<<"a">>, <<"b">>, <<"a", ":", "0", "|", "b">>}

CacheContents == {<<"x">>, <<"y">>}

\* the hex digests of the file contents
HexDigest == (<<"x">>) :> <<"0">> @@ (<<"y">>) :> <<"1">>

CacheGraphs ==
  {analysedGraph(extractCallGraph(TextF), FileA),
   analysedGraph(extractCallGraph(TextFG), FileA)}

\* values of Date.now(); the timestamp of an entry is never read
CacheTimes == {1}

\* the argument lists of getMultiple and setMultiple: one content per path,
\* no path twice
CacheFileLists ==
  {l \in UNION {[filePaths : [1..n -> CachePaths], contents : [1..n -> CacheContents]] :
                  n \in 1..MaxCacheFiles} :
     \A i, j \in DOMAIN l.filePaths : l.filePaths[i] = l.filePaths[j] => i = j}

\* SHA-256 as a hex string; no two strings share a digest
hashContent(content) ==
  IF content \in DOMAIN HexDigest THEN HexDigest[content] ELSE <<"#">> \o content

CharRank(ch) == CHOOSE i \in DOMAIN CacheAlphabet : CacheAlphabet[i] = ch

RECURSIVE localeCompare(_, _)
localeCompare(a, b) ==
  IF a = <<>> /\ b = <<>> THEN 0
  ELSE IF a = <<>> THEN -1
  ELSE IF b = <<>> THEN 1
  ELSE IF Head(a) = Head(b) THEN localeCompare(Tail(a), Tail(b))
  ELSE IF CharRank(Head(a)) < CharRank(Head(b)) THEN -1 ELSE 1

RECURSIVE InsertByPath(_, _)
InsertByPath(sorted, f) ==
  IF sorted = <<>> THEN <<f>>
  ELSE IF localeCompare(Head(sorted).path, f.path) <= 0
       THEN <<Head(sorted)>> \o InsertByPath(Tail(sorted), f)
       ELSE <<f>> \o sorted

RECURSIVE SortByPath(_)
\* Array.prototype.sort with (a, b) => a.path.localeCompare(b.path): stable
SortByPath(files) ==
  IF files = <<>> THEN <<>>
  ELSE InsertByPath(SortByPath(SubSeq(files, 1, Len(files) - 1)), files[Len(files)])

RECURSIVE JoinBar(_)
\* parts.join('|')
JoinBar(parts) ==
  IF parts = <<>> THEN <<>>
  ELSE IF Len(parts) = 1 THEN parts[1]
  ELSE parts[1] \o <<"|">> \o JoinBar(Tail(parts))

createWorkspaceCacheKey(filePaths, contents) ==
  LET sorted == SortByPath([i \in DOMAIN filePaths |->
                              [path |-> filePaths[i], content |-> contents[i]]])
      combined == JoinBar([i \in DOMAIN sorted |->
                             sorted[i].path \o <<":">> \o hashContent(sorted[i].content)])
  IN hashContent(combined)

\* the graph, or null as the empty set
getMultiple(cache, filePaths, contents) ==
  LET cacheKey == createWorkspaceCacheKey(filePaths, contents)
  IN IF MapHas(cache, cacheKey) THEN {cache[cacheKey].graph} ELSE {}

setMultiple(cache, filePaths, contents, graph, now) ==
  LET cacheKey == createWorkspaceCacheKey(filePaths, contents)
  IN MapSet(cache, cacheKey, [hash |-> cacheKey, graph |-> graph, timestamp |-> now])

CacheInit ==
  /\ globalState = EmptyMap
  /\ panel = NoPanel
  /\ filePickerResolver = 0
  /\ promises = <<>>
  /\ repoFiles = <<>>
  /\ crossFileCalls = <<>>
  /\ disk = [f \in TrackedFiles |-> TextF]
  /\ nextId = 1
  /\ debounceTimers = {}
  /\ pendingChanges = EmptyMap
  /\ transitionTimers = {}
  /\ activelyEditing = EmptyMap
  /\ changedFunctions = EmptyMap
  /\ cachedCallGraphs = EmptyMap
  /\ fileGraphs = EmptyMap
  /\ runs = {}
  /\ out = <<>>
  /\ hist = [id \in EventIds |-> NoHist]
  /\ lastEvent = [f \in Files |-> 0]
  /\ cgWriter = [f \in TrackedFiles |-> [last |-> 0, max |-> 0]]

CacheFrame ==
  UNCHANGED <<disk, nextId, debounceTimers, pendingChanges, transitionTimers,
              activelyEditing, changedFunctions, cachedCallGraphs, fileGraphs,
              repoFiles, crossFileCalls, runs, hist, lastEvent, cgWriter,
              webviewVars>>

\* await cache.setMultiple(filePaths, contents, graph)
SetMultiple(l, graph, now) ==
  /\ \/ MapHas(globalState, createWorkspaceCacheKey(l.filePaths, l.contents))
     \/ Cardinality(DOMAIN globalState) < MaxCacheEntries
  /\ globalState' = setMultiple(globalState, l.filePaths, l.contents, graph, now)
  /\ out' = <<[call |-> "setMultiple", filePaths |-> l.filePaths,
               contents |-> l.contents, graph |-> graph, result |-> {}]>>
  /\ CacheFrame

\* await cache.getMultiple(filePaths, contents)
GetMultiple(l) ==
  /\ out' = <<[call |-> "getMultiple", filePaths |-> l.filePaths,
               contents |-> l.contents, graph |-> {},
               result |-> getMultiple(globalState, l.filePaths, l.contents)]>>
  /\ UNCHANGED globalState
  /\ CacheFrame

\* await cache.clear()
Clear ==
  /\ globalState' = EmptyMap
  /\ out' = <<[call |-> "clear", filePaths |-> <<>>, contents |-> <<>>, graph |-> {},
               result |-> {}]>>
  /\ CacheFrame

CacheNext ==
  \/ \E l \in CacheFileLists, graph \in CacheGraphs, now \in CacheTimes :
       SetMultiple(l, graph, now)
  \/ \E l \in CacheFileLists : GetMultiple(l)
  \/ Clear

CacheSpec == CacheInit /\ [][CacheNext]_vars

\* the (path, content) pairs of an argument list
FileSet(l) == {<<l.filePaths[i], l.contents[i]>> : i \in DOMAIN l.filePaths}

(***************************************************************************)
(* C29.  Right after setMultiple(paths, contents, g), getMultiple returns *)
(* g for every ordering of the same (path, content) pairs, and returns    *)
(* for every other file set what it returned before the write: null       *)
(* unless that set was stored itself.                                      *)
(***************************************************************************)
CacheRoundTrip ==
  [][(out' # <<>> /\ out'[1].call = "setMultiple") =>
       \A l \in CacheFileLists :
         getMultiple(globalState', l.filePaths, l.contents) =
           IF FileSet(l) = FileSet(out'[1])
           THEN {out'[1].graph}
           ELSE getMultiple(globalState, l.filePaths, l.contents)]_vars

(***************************************************************************)
(* resolveImportToRepoFile applied to import sources, importing files and  *)
(* lists of known paths.                                                   *)
(***************************************************************************)
MaxKnownPaths == 3

FileLibA == <<(<<"lib">>), (<<"a", "py">>)>>

\* './b', '../b', 'b', 'lib.b', '@scope', '@scope/b', 'lib/b'
ImportSources ==
  {<<Dot, (<<"b">>)>>, <<DotDot, (<<"b">>)>>, <<(<<"b">>)>>, <<(<<"lib", "b">>)>>,
   <<(<<"@scope">>)>>, <<(<<"@scope">>), (<<"b">>)>>, <<(<<"lib">>), (<<"b">>)>>}

\* 'a.py', 'lib/a.py'
ImportingFiles == {FileA, FileLibA}

\* 'b.ts', 'b.py', 'b', 'lib/b.py', 'lib/b.js'
KnownPaths ==
  {<<(<<"b", "ts">>)>>, FileB, <<(<<"b">>)>>,
   <<(<<"lib">>), (<<"b", "py">>)>>, <<(<<"lib">>), (<<"b", "js">>)>>}

\* repoFiles with one entry per path at most: allPaths is repoFiles.map(f => f.path)
KnownIndexes ==
  {[i \in DOMAIN paths |-> RepoFile(paths[i], <<>>)] :
     paths \in {l \in UNION {[1..n -> KnownPaths] : n \in 0..MaxKnownPaths} :
                  \A i, j \in DOMAIN l : l[i] = l[j] => i = j}}

ImportInit ==
  /\ repoFiles \in KnownIndexes
  /\ crossFileCalls = <<>>
  /\ globalState = EmptyMap
  /\ panel = NoPanel
  /\ filePickerResolver = 0
  /\ promises = <<>>
  /\ disk = [f \in TrackedFiles |-> TextF]
  /\ nextId = 1
  /\ debounceTimers = {}
  /\ pendingChanges = EmptyMap
  /\ transitionTimers = {}
  /\ activelyEditing = EmptyMap
  /\ changedFunctions = EmptyMap
  /\ cachedCallGraphs = EmptyMap
  /\ fileGraphs = EmptyMap
  /\ runs = {}
  /\ out = <<>>
  /\ hist = [id \in EventIds |-> NoHist]
  /\ lastEvent = [f \in Files |-> 0]
  /\ cgWriter = [f \in TrackedFiles |-> [last |-> 0, max |-> 0]]

\* one call of resolveImportToRepoFile(importSource, currentFile, allPaths)
ResolveImport(importSource, currentFile) ==
  /\ LET allPaths == [i \in DOMAIN repoFiles |-> repoFiles[i].path]
     IN out' = <<[call |-> "resolveImportToRepoFile", importSource |-> importSource,
                  currentFile |-> currentFile, allPaths |-> allPaths,
                  result |-> resolveImportToRepoFile(importSource, currentFile,
                                                     allPaths)]>>
  /\ UNCHANGED <<webviewVars, globalState, disk, nextId, debounceTimers, pendingChanges,
                 transitionTimers, activelyEditing, changedFunctions, cachedCallGraphs,
                 fileGraphs, repoFiles, crossFileCalls, runs, hist, lastEvent, cgWriter>>

ImportNext ==
  \E importSource \in ImportSources, currentFile \in ImportingFiles :
    ResolveImport(importSource, currentFile)

ImportSpec == ImportInit /\ [][ImportNext]_vars

\* the import source starts with './' or '../'
IsRelativeImport(importSource) ==
  Len(importSource) >= 2 /\ importSource[1] \in {Dot, DotDot}

\* the import source has no '/' and does not start with '@'
IsBareImport(importSource) ==
  Len(importSource) = 1 /\ importSource[1][1] # "@scope"

\* the candidates of a relative import, in the order they are tried
RelativeCandidates(importSource, currentFile) ==
  LET dir  == SubSeq(currentFile, 1, Len(currentFile) - 1)
      base == JoinPath(ResolveSegments(dir \o importSource, <<>>))
  IN [i \in 1..6 |-> AddExt(base, <<"ts", "tsx", "js", "jsx", "py", "">>[i])]

\* the candidates of a bare module name, in the order they are tried
ModuleCandidates(importSource) ==
  [i \in 1..4 |-> AddExt(DotsToSlashes(importSource[1]), <<"py", "ts", "js", "">>[i])]

\* the known paths that are the candidate or end with '/' and the candidate
SuffixMatches(allPaths, candidate) ==
  {f \in Range(allPaths) :
     \/ f = candidate
     \/ Len(f) > Len(candidate) /\
        SubSeq(f, Len(f) - Len(candidate) + 1, Len(f)) = candidate}

(***************************************************************************)
(* C30.  A relative import resolves to the first candidate of             *)
(* base.ts, base.tsx, base.js, base.jsx, base.py, base among the known     *)
(* paths, base being the importing file's directory walked along the      *)
(* import's segments, and to null when none is known, whatever the bare    *)
(* module matching would find.  A source without '/' that does not start   *)
(* with '@' resolves to a known path that is, or ends with '/' and, the    *)
(* first of module.py, module.ts, module.js, module that has such a path,  *)
(* and to null when none has.                                              *)
(***************************************************************************)
ImportResolution ==
  \A k \in DOMAIN out :
    out[k].call = "resolveImportToRepoFile" =>
      LET o    == out[k]
          rel  == RelativeCandidates(o.importSource, o.currentFile)
          mod  == ModuleCandidates(o.importSource)
          relHits == {i \in DOMAIN rel : rel[i] \in Range(o.allPaths)}
          modHits == {i \in DOMAIN mod : SuffixMatches(o.allPaths, mod[i]) # {}}
      IN IF IsRelativeImport(o.importSource)
         THEN IF relHits = {} THEN o.result = {}
              ELSE \E i \in relHits :
                     /\ \A j \in relHits : i <= j
                     /\ o.result = {rel[i]}
         ELSE IsBareImport(o.importSource) =>
                IF modHits = {} THEN o.result = {}
                ELSE \E i \in modHits :
                       /\ \A j \in modHits : i <= j
                       /\ Cardinality(o.result) = 1
                       /\ o.result \subseteq SuffixMatches(o.allPaths, mod[i])

\* '../b' from 'a.py', popping at the root, found b.ts although b.py is known too
ImportResolutionWitness ==
  \E k \in DOMAIN out :
    /\ out[k].call = "resolveImportToRepoFile"
    /\ out[k].importSource = <<DotDot, (<<"b">>)>>
    /\ out[k].currentFile = FileA
    /\ FileB \in Range(out[k].allPaths)
    /\ out[k].result = {<<(<<"b", "ts">>)>>}

(***************************************************************************)
(* A file without cached call graph, from the firing of its debounce      *)
(* timer to the callback's decision on a null result.                      *)
(***************************************************************************)
IgnoreNext ==
  \/ \E t \in debounceTimers : DebounceFire(t)
  \/ \E r \in runs : Resume389(r)
  \/ \E r \in runs : Resume445(r)
  \/ \E r \in runs : Resume322(r)

IgnoreSpec == NewFileInit /\ [][IgnoreNext]_vars

(***************************************************************************)
(* C31.  When the run of a file without prior analysis has ended in the   *)
(* 'ignore' decision, the call graph cache, the persisted graphs, the     *)
(* repo index and the cross-file calls are as they were before the run.   *)
(***************************************************************************)
IgnoredRunLeavesStores ==
  hist[1].outcome = "ignored" =>
    /\ cachedCallGraphs = EmptyMap
    /\ fileGraphs = EmptyMap
    /\ repoFiles = <<>>
    /\ crossFileCalls = <<>>

(***************************************************************************)
(* C32.  When the callback gets a result without structural change for a  *)
(* file, it leaves no transition timer, no active-editing record and no    *)
(* changed-functions record of the file and notifies 'unchanged': no       *)
(* timer armed by an earlier patch of the file is left to fire.            *)
(***************************************************************************)
ZeroChangeResetsIndicators ==
  [][\A r \in runs :
       (ResumeReturn(r) /\ ~IsStructural(ResultOf(r))) =>
         /\ \A t \in transitionTimers' : t.file # r.file
         /\ ~MapHas(activelyEditing', r.file)
         /\ ~MapHas(changedFunctions', r.file)
         /\ out' = <<Out("notifyFileStateChange", r, "unchanged", {}, {})>>]_vars

\* the second run found no structural change while the timer of the first
\* patch was armed: the timer is gone and never fired
ZeroChangeResetsIndicatorsWitness ==
  /\ out # <<>>
  /\ out[1].call = "notifyFileStateChange" /\ out[1].state = "unchanged"
  /\ out[1].run = 2
  /\ hist[2].outcome = "patch"
  /\ hist[1].outcome = "patch" /\ hist[1].patchEv # 0 /\ hist[1].changedN = 0
  /\ transitionTimers = {}

(***************************************************************************)
(* C33.  The armed debounce timer of a file is the one of the file's       *)
(* latest event, with the delay of that event's kind (100 ms for a        *)
(* create, the configured interval otherwise): an event cancels the timer *)
(* of the event before it, and a pipeline run is started only by the       *)
(* timer of the latest event.                                              *)
(***************************************************************************)
LatestEventDecidesDelay ==
  [][/\ \A t \in debounceTimers' :
          /\ t.id = lastEvent'[t.file]
          /\ t.delay = IF t.source = "create" THEN 100 ELSE t.config.debounceMs
     /\ \A f \in TrackedFiles :
          lastEvent'[f] # lastEvent[f] =>
            /\ \E t \in debounceTimers' : t.file = f
            /\ \A t \in debounceTimers : t.file = f => t \notin debounceTimers'
     /\ \A r \in runs' \ runs :
          r.id \notin {q.id : q \in runs} => r.id = lastEvent[r.file]]_vars

\* a modification arrived while the 100 ms timer of a create was armed: that
\* timer is cancelled and the timer of the modification has the configured delay
LatestEventDecidesDelayWitness ==
  /\ out # <<>>
  /\ out[1].call = "setTimeout"
  /\ out[1].timer.source = "save"
  /\ out[1].timer.delay = out[1].timer.config.debounceMs
  /\ out[1].timer \in debounceTimers
  /\ \E c \in out[1].cleared :
       c.source = "create" /\ c.delay = 100 /\ c.file = out[1].file
  /\ \A c \in out[1].cleared : c \notin debounceTimers

(***************************************************************************)
(* C34.  When performLocalUpdate throws on the path with a cached call    *)
(* graph and a cached file graph and returns null, the file's cached call *)
(* graph and its persisted graph are what the run found when it started.  *)
(***************************************************************************)
DiffPathFailsAtomically ==
  [][\A r \in runs :
       (Throw(r) /\ r.oldCallGraph # {} /\ r.fileGraph # {}
          /\ r.pc \in {"L404", "L430", "L436"}) =>
         /\ getCachedCallGraph(r.file) = r.oldCallGraph
         /\ getFileGraph(fileGraphs, r.file) = r.fileGraph]_vars

(***************************************************************************)
(* C35.  When the diff of a cached file is empty in all five fields,       *)
(* performLocalUpdate makes no call of setCachedCallGraph,                 *)
(* cache.setAnalysisResult or updateCrossFileState, and its PatchResult    *)
(* has empty id lists, zero edge counts, empty needsMetadata and empty     *)
(* changedFunctions.                                                        *)
(***************************************************************************)
EmptyDiffWritesNothing ==
  [][\A r \in runs :
       (/\ Resume389(r)
        /\ r.oldCallGraph # {} /\ r.fileGraph # {}
        /\ DiffOf(r).addedFunctions = {} /\ DiffOf(r).removedFunctions = {}
        /\ DiffOf(r).modifiedFunctions = {}
        /\ DiffOf(r).addedEdges = {} /\ DiffOf(r).removedEdges = {}) =>
         /\ UNCHANGED <<cachedCallGraphs, cgWriter, fileGraphs, repoFiles, crossFileCalls>>
         /\ \E q \in runs' :
              /\ q.id = r.id /\ q.pc = "L404"
              /\ ResultOf(q).nodesAdded = {} /\ ResultOf(q).nodesRemoved = {}
              /\ ResultOf(q).nodesUpdated = {}
              /\ ResultOf(q).edgesAdded = 0 /\ ResultOf(q).edgesRemoved = 0
              /\ ResultOf(q).needsMetadata = {}
              /\ ResultOf(q).changedFunctions = {}]_vars

\* a saved file whose call graph is the cached one: the run waits for the
\* merged graph and nobody has written the call graph cache
EmptyDiffWritesNothingWitness ==
  \E r \in runs :
    /\ r.pc = "L404"
    /\ DOMAIN r.newCallGraph # {}
    /\ cgWriter[r.file].last = 0
    /\ getCachedCallGraph(r.file) = r.oldCallGraph
    /\ getFileGraph(fileGraphs, r.file) = r.fileGraph

(***************************************************************************)
(* C36.  The repo index never lists a path twice.  A call of               *)
(* updateCrossFileState that finds the index empty changes neither the     *)
(* index nor the cross-file calls; any other call leaves an index whose    *)
(* last entry is the only one of relativePath and holds the functions of   *)
(* the content, the other entries being the earlier ones in their order.   *)
(***************************************************************************)
RepoIndexPostcondition ==
  /\ \A i, j \in DOMAIN repoFiles : repoFiles[i].path = repoFiles[j].path => i = j
  /\ out # <<>> =>
       LET o == out[1]
       IN IF o.index = <<>>
          THEN repoFiles = <<>> /\ crossFileCalls = o.calls
          ELSE /\ repoFiles # <<>>
               /\ repoFiles[Len(repoFiles)] =
                    [path |-> o.relativePath,
                     functions |->
                       [i \in DOMAIN o.content.decls |->
                          [name  |-> o.content.decls[i].name,
                           calls |-> o.content.decls[i].calls,
                           line  |-> o.content.decls[i].startLine]]]
               /\ SubSeq(repoFiles, 1, Len(repoFiles) - 1) =
                    SelectSeq(o.index, LAMBDA f : f.path # o.relativePath)

\* the file's entry was the first of two and listed other functions: it is
\* now the last one, after the other file's entry
RepoIndexPostconditionWitness ==
  /\ out # <<>>
  /\ Len(out[1].index) = 2
  /\ out[1].index[1].path = out[1].relativePath
  /\ out[1].index[1].functions # repoFiles[Len(repoFiles)].functions
  /\ Len(repoFiles) = 2
  /\ repoFiles[1] = out[1].index[2]
  /\ repoFiles[2].path = out[1].relativePath

(***************************************************************************)
(* C37.  A file has at most one armed transition timer.  A structural      *)
(* patch has changed functions, and when the callback has handled it the  *)
(* file's only armed timer is the one of that patch, with its function     *)
(* list; a timer is armed by nothing else.  When the timer fires it        *)
(* notifies 'changed' with that list and leaves no timer of the file.      *)
(***************************************************************************)
OneTransitionTimerPerFile ==
  [][/\ \A t1, t2 \in transitionTimers' : t1.file = t2.file => t1 = t2
     /\ \A r \in runs :
          (ResumeReturn(r) /\ IsStructural(ResultOf(r))) =>
            /\ ResultOf(r).changedFunctions # {}
            /\ {t \in transitionTimers' : t.file = r.file} =
                 {[id |-> r.id, file |-> r.file,
                   functions |-> ResultOf(r).changedFunctions]}
     /\ \A t \in transitionTimers' \ transitionTimers :
          \E r \in runs : r.id = t.id /\ ResumeReturn(r)
     /\ \A t \in transitionTimers :
          TransitionFire(t) =>
            /\ \A u \in transitionTimers' : u.file # t.file
            /\ out'[1].call = "notifyFileStateChange" /\ out'[1].state = "changed"
            /\ out'[1].functions = t.functions]_vars

\* the second structural patch of the file replaced the armed timer of the
\* first, which never fired
OneTransitionTimerPerFileWitness ==
  /\ out # <<>>
  /\ out[1].call = "updateGraph" /\ out[1].run = 2
  /\ hist[1].outcome = "patch" /\ hist[1].patchEv # 0 /\ hist[1].changedN = 0
  /\ \E t \in transitionTimers : t.id = 2 /\ t.functions = out[1].functions
  /\ Cardinality(transitionTimers) = 1

(***************************************************************************)
(* C38: a file is never recorded as actively edited and as changed at the  *)
(* same time: in every reachable state each file has at most one of an     *)
(* active-editing record (timer + functions) and a changed-functions       *)
(* record, also after a structural patch for a file that is in the         *)
(* Changed state.                                                          *)
(***************************************************************************)
NeverActiveAndChanged ==
  \A f \in TrackedFiles :
    ~(MapHas(activelyEditing, f) /\ MapHas(changedFunctions, f))

(***************************************************************************)
(* WebviewManager: the panel, the file picker and the promise that         *)
(* showFilePicker returns.  A panel records which method created it (each  *)
(* registers its own onDidDispose listener), what its html shows and       *)
(* whether the webview was told to show the picker or the loading text.    *)
(* promises[i] is the promise of the i-th showFilePicker call.             *)
(***************************************************************************)
MaxPickerCalls == 3

\* message.selectedPaths of a 'filePickerResult' message
Selections == {<<>>, <<"a.py">>, <<"a.py", "b.py">>}

\* vscode.window.createWebviewPanel(...) as called by `method`
createWebviewPanel(method, html) ==
  [createdBy |-> method, html |-> html, picker |-> FALSE, loading |-> FALSE]

\* resolve(value) of the promise filePickerResolver belongs to; calling it
\* on a settled promise changes nothing
resolve(resolver, value) ==
  IF promises[resolver].state = "pending"
  THEN [promises EXCEPT ![resolver] = value]
  ELSE promises

WebviewFrame ==
  UNCHANGED <<disk, nextId, debounceTimers, pendingChanges, transitionTimers,
              activelyEditing, changedFunctions, cachedCallGraphs, fileGraphs,
              repoFiles, crossFileCalls, runs, out, hist, lastEvent, cgWriter,
              globalState>>

\* showFilePicker(tree, totalFiles): no await before the promise is created,
\* so the call runs in one step; tree and totalFiles only go into the
\* posted message
showFilePicker ==
  /\ Len(promises) < MaxPickerCalls
  /\ LET shown == IF panel = NoPanel
                  THEN createWebviewPanel("showFilePicker", "empty")
                  ELSE panel
     IN panel' = [shown EXCEPT !.picker = TRUE]
  /\ promises' = Append(promises, [state |-> "pending", paths |-> <<>>])
  /\ filePickerResolver' = Len(promises) + 1
  /\ WebviewFrame

\* showLoading(message)
showLoading ==
  /\ LET shown == IF panel = NoPanel
                  THEN createWebviewPanel("showLoading", "empty")
                  ELSE panel
     IN panel' = [shown EXCEPT !.loading = TRUE]
  /\ UNCHANGED <<filePickerResolver, promises>>
  /\ WebviewFrame

\* show(graph, loadingOptions)
show ==
  /\ panel' = IF panel # NoPanel
              THEN [panel EXCEPT !.html = "graph"]
              ELSE createWebviewPanel("show", "graph")
  /\ UNCHANGED <<filePickerResolver, promises>>
  /\ WebviewFrame

\* the user confirms the open picker: the webview posts 'filePickerResult'
\* and the handler of setupMessageHandlers runs
FilePickerResult(selectedPaths) ==
  /\ panel # NoPanel /\ panel.picker
  /\ panel' = [panel EXCEPT !.picker = FALSE]
  /\ IF filePickerResolver # 0
     THEN /\ promises' = resolve(filePickerResolver,
                                 [state |-> "selected", paths |-> selectedPaths])
          /\ filePickerResolver' = 0
     ELSE UNCHANGED <<filePickerResolver, promises>>
  /\ WebviewFrame

\* the panel is closed: the onDidDispose listener registered at its creation
\* runs; only the one registered by showFilePicker looks at the resolver
Dispose ==
  /\ panel # NoPanel
  /\ panel' = NoPanel
  /\ IF panel.createdBy = "showFilePicker" /\ filePickerResolver # 0
     THEN /\ promises' = resolve(filePickerResolver,
                                 [state |-> "null", paths |-> <<>>])
          /\ filePickerResolver' = 0
     ELSE UNCHANGED <<filePickerResolver, promises>>
  /\ WebviewFrame

WebviewNext ==
  \/ showFilePicker
  \/ showLoading
  \/ show
  \/ \E selectedPaths \in Selections : FilePickerResult(selectedPaths)
  \/ Dispose

\* a new WebviewManager: no panel, no resolver, no promise handed out
WebviewSpec == CacheInit /\ [][WebviewNext]_vars

(***************************************************************************)
(* The user answers a picker that stays open, and every panel is closed    *)
(* at some point.                                                          *)
(***************************************************************************)
FairWebviewSpec ==
  /\ WebviewSpec
  /\ WF_vars(\E selectedPaths \in Selections : FilePickerResult(selectedPaths))
  /\ WF_vars(Dispose)

(***************************************************************************)
(* C39: every promise returned by showFilePicker is eventually resolved,   *)
(* with the selection of a 'filePickerResult' message or with null when    *)
(* the panel is disposed, whichever method created the panel and also      *)
(* when showFilePicker is called again before the previous call got its    *)
(* result.                                                                 *)
(***************************************************************************)
PickerPromiseResolved ==
  \A i \in 1..MaxPickerCalls :
    (Len(promises) >= i /\ promises[i].state = "pending")
      ~> (Len(promises) >= i /\ promises[i].state # "pending")

====
